---------------------------- MODULE Spec2Model ----------------------------
(***************************************************************************)
(* A model of the grid descriptor, diagonalizer, eigensolver and           *)
(* pair-overlap bookkeeping of gpaw.  Arrays are functions over grid       *)
(* indices; axes are numbered 0..2 as in the source.                       *)
(***************************************************************************)
EXTENDS Integers, Sequences, FiniteSets, TLC

VARIABLES
    gd_pc,      \* "new", then "built" or "raised" once the constructor ran
    gd_r,       \* rank -> the GridDescriptor object built on that rank
    ctor,       \* the arguments of the GridDescriptor(...) call
    pc,         \* rank -> where the rank is in distribute() / collect()
    B_xg,       \* the global array handed to distribute() on the master
    b_xg,       \* rank -> the local array b_xg (a_xg of collect)
    requests,   \* distribute(): the master's list of (request, a_xg)
    msgs,       \* point-to-point messages posted and not yet received
    r_loop,     \* collect(): the master's loop counter r
    A_xg,       \* rank -> the global array A_xg of collect()
    bcast,      \* the buffer of the broadcast from rank 0
    ret,        \* rank -> what collect() returned
    log,        \* what the master did: receive order, writes per element
    gb,         \* the frame of a get_boxes() call on one rank
    dcfg,       \* diagonalize(): communicator sizes, band count, input
    dpc,        \* worker -> where the worker is in diagonalize()
    H_NN,       \* worker -> the matrix H_NN
    eps_N,      \* worker -> the local array eps_N of all eigenvalues
    eps_n,      \* worker -> the worker's eigenvalue array eps_n
    band_msgs,  \* bd.distribute: slices sent and not yet received
    band_bcast, \* what band rank 0 broadcast on the band communicator
    grid_bcast, \* band rank -> what grid rank 0 broadcast, in order
    dcall,      \* worker -> the _diagonalize calls made and what came of them
    es,         \* the Eigensolver object
    wfs,        \* the wave functions object
    it,         \* the frame of an Eigensolver.iterate() call
    po,         \* the PairOverlap object
    X_aa,       \* the pair matrix
    px,         \* the assign/extract calls made on X_aa
    icfg,       \* integrate(): the arguments and the workers' arrays
    ipc,        \* rank -> where the rank is in integrate()
    contrib,    \* rank -> what the rank gave to comm.sum, <<>> if nothing
    iret,        \* rank -> what integrate() returned or raised
    pp,         \* ProjectorPairOverlap: the matrices, owners and projections
    wk,         \* rank -> the frame of the rank in apply() and its relatives
    hist,        \* rank -> what the rank gave to its domain_comm.sum calls
    up,          \* the frame of the ProjectorPairOverlap.update() calls
    sd,          \* the frame of a subspace diagonalization (eigensolvers/__init__.py)
    ccfg,       \* the convergence criteria and the layout of one Eigensolver.iterate
    cw,          \* each worker's frame of that iterate call
    xrun,       \* which exchange runs, on how many ranks
    xp,         \* each rank's frame of the exchange
    xbuf,       \* the arrays: contents and whether still allocated
    xreq,       \* the requests of the communicator, in posting order
    xchan,      \* the messages posted and not yet received, per (source, destination)
    xev,         \* the accesses made to the arrays, with the requests pending on them
    cr,          \* what coarsen() and then refine() returned or raised, per rank
    rad,         \* a radial grid descriptor, its truncation and the arrays they name
    tb,          \* the grid arrays of an eigensolver and its k-points over several diagonalize calls
    ps,          \* one call of PoissonSolver.solve
    ks          \* an eigensolver, its keep_htpsit flag and its Htpsit_nG buffer

gdvars == <<gd_pc, gd_r, ctor>>
commvars == <<pc, B_xg, b_xg, requests, msgs, r_loop, A_xg, bcast, ret, log>>
boxvars == <<gb>>
diagvars == <<dcfg, dpc, H_NN, eps_N, eps_n, band_msgs, band_bcast, grid_bcast,
             dcall>>
itervars == <<es, wfs, it>>
pairvars == <<po, X_aa, px>>
intvars == <<icfg, ipc, contrib, iret>>
projvars == <<pp, wk, hist>>
updvars == <<up>>
subvars == <<sd>>
convvars == <<ccfg, cw>>
nbvars == <<xrun, xp, xbuf, xreq, xchan, xev>>
crvars == <<cr>>
radvars == <<rad>>
rotvars == <<tb>>
psvars == <<ps>>
keepvars == <<ks>>
vars == <<gdvars, commvars, boxvars, diagvars, itervars, pairvars, intvars, projvars, updvars, subvars, convvars, nbvars, crvars, radvars, rotvars, psvars, keepvars>>

\* what the actions of one model leave alone
restGD == <<commvars, boxvars, diagvars, itervars, pairvars, intvars, projvars, updvars, subvars, convvars, nbvars, crvars, radvars, rotvars, psvars, keepvars>>
restComm == <<boxvars, diagvars, itervars, pairvars, intvars, projvars, updvars, subvars, convvars, nbvars, crvars, radvars, rotvars, psvars, keepvars>>
restBoxes == <<commvars, diagvars, itervars, pairvars, intvars, projvars, updvars, subvars, convvars, nbvars, crvars, radvars, rotvars, psvars, keepvars>>
restDiag == <<gdvars, commvars, boxvars, itervars, pairvars, intvars, projvars, updvars, subvars, convvars, nbvars, crvars, radvars, rotvars, psvars, keepvars>>
restIter == <<gdvars, commvars, boxvars, diagvars, pairvars, intvars, projvars, updvars, subvars, convvars, nbvars, crvars, radvars, rotvars, psvars, keepvars>>
restPair == <<gdvars, commvars, boxvars, diagvars, itervars, intvars, projvars, updvars, subvars, convvars, nbvars, crvars, radvars, rotvars, psvars, keepvars>>
restInt == <<gdvars, commvars, boxvars, diagvars, itervars, pairvars, projvars, updvars, subvars, convvars, nbvars, crvars, radvars, rotvars, psvars, keepvars>>
restProj == <<gdvars, commvars, boxvars, diagvars, itervars, pairvars, intvars, updvars, subvars, convvars, nbvars, crvars, radvars, rotvars, psvars, keepvars>>
restSub == <<gdvars, commvars, boxvars, diagvars, itervars, pairvars, intvars, projvars, updvars, convvars, nbvars, crvars, radvars, rotvars, psvars, keepvars>>
restUpd == <<gdvars, commvars, boxvars, diagvars, itervars, pairvars, intvars, wk, hist, subvars, convvars, nbvars, crvars, radvars, rotvars, psvars, keepvars>>
restConv == <<gdvars, commvars, boxvars, diagvars, itervars, pairvars, intvars, projvars, updvars, subvars, nbvars, crvars, radvars, rotvars, psvars, keepvars>>
restNB == <<gdvars, commvars, boxvars, diagvars, itervars, pairvars, intvars, projvars, updvars, subvars, convvars, crvars, radvars, rotvars, psvars, keepvars>>
restCR == <<gdvars, commvars, boxvars, diagvars, itervars, pairvars, intvars, projvars, updvars, subvars, convvars, nbvars, radvars, rotvars, psvars, keepvars>>
restRad == <<gdvars, commvars, boxvars, diagvars, itervars, pairvars, intvars, projvars, updvars, subvars, convvars, nbvars, crvars, rotvars, psvars, keepvars>>
restRot == <<gdvars, commvars, boxvars, diagvars, itervars, pairvars, intvars, projvars, updvars, subvars, convvars, nbvars, crvars, radvars, psvars, keepvars>>
restPs == <<gdvars, commvars, boxvars, diagvars, itervars, pairvars, intvars, projvars, updvars, subvars, convvars, nbvars, crvars, radvars, rotvars, keepvars>>
restKeep == <<gdvars, commvars, boxvars, diagvars, itervars, pairvars, intvars, projvars, updvars, subvars, convvars, nbvars, crvars, radvars, rotvars, psvars>>

(***************************************************************************)
(* Bounds of the model.                                                    *)
(***************************************************************************)
MaxN == 4           \* grid points per axis in the construction model
MaxPar == 2         \* domains per axis in the construction model

Axes == 0..2
None == "None"

\* unit cells: orthorhombic, given by the three edge lengths (powers of two,
\* so that the floating point expressions of the source are exact)
Cells == {[c \in Axes |-> 4], [c \in Axes |-> IF c = 2 THEN 2 ELSE 4]}

Prod3(x) == x[0] * x[1] * x[2]

\* the half-open index range [b, e)
Range(b, e) == b..(e - 1)

(***************************************************************************)
(* Domain (gpaw/domain.py): the position of a rank in the 3D grid of       *)
(* domains; rank = n2 + P2 * (n1 + P1 * n0).                               *)
(***************************************************************************)
get_processor_position_from_rank(rank, parsize_c) ==
    [c \in Axes |->
        CASE c = 0 -> rank \div (parsize_c[1] * parsize_c[2])
          [] c = 1 -> (rank \div parsize_c[2]) % parsize_c[1]
          [] c = 2 -> rank % parsize_c[2]]

(***************************************************************************)
(* GridDescriptor.__init__                                                 *)
(***************************************************************************)
\* a mutant of around_4999: the inner boundaries at half their place
around_4999_halved(p, N, P) == IF p = P THEN N ELSE (p * N) \div (2 * P)

\* np.around(p * float(N) / P + 0.4999): the argument is the rational
\* (10000 p N + 4999 P) / (10000 P); a tie of the rounding needs P to be a
\* multiple of 5000, so for the P of this model around() is floor(x + 0.5).
around_4999(p, N, P) == (10000 * p * N + 9999 * P) \div (10000 * P)

\* a mutant of n_p: the boundary point is dropped on the periodic axes
n_p_pbc_inverted(N, P, pbc) ==
    [p \in 0..P |-> IF p = 0 /\ pbc THEN 1 ELSE around_4999(p, N, P)]

\* lines 117-121: the chunk boundaries of one axis
n_p(N, P, pbc) ==
    [p \in 0..P |-> IF p = 0 /\ ~pbc THEN 1 ELSE around_4999(p, N, P)]

\* line 123: np.alltrue(n_p[1:] - n_p[:-1]) is false iff a difference is 0
alltrue_diff(np, P) == \A p \in 0..(P - 1) : np[p + 1] - np[p] # 0

\* lines 139-142: h_c = L_c / N_c with L_c the edge length; a division by
\* N_c = 0 gives inf, inf / finite = inf > 1.3, inf / inf = nan and
\* nan > 1.3 is false.  max(h) / min(h) > 1.3 is compared in integers.
VeryAnisotropic(N_c, cell_c) ==
    LET zero == {c \in Axes : N_c[c] = 0}
    IN  IF zero = Axes THEN FALSE
        ELSE IF zero # {} THEN TRUE
        ELSE \E c, d \in Axes :
                10 * cell_c[c] * N_c[d] > 13 * cell_c[d] * N_c[c]

\* the object built on one rank, or the error the constructor raises
GridDescriptor(N_c, cell_c, pbc_c, parsize_c, rank) ==
    LET n_cp == [c \in Axes |-> n_p(N_c[c], parsize_c[c], pbc_c[c])]
        parpos_c == get_processor_position_from_rank(rank, parsize_c)
        beg_c == [c \in Axes |-> n_cp[c][parpos_c[c]]]
        end_c == [c \in Axes |-> n_cp[c][parpos_c[c] + 1]]
        err == IF \E c \in Axes : ~alltrue_diff(n_cp[c], parsize_c[c])
                  THEN "Grid too small!"
               ELSE IF VeryAnisotropic(N_c, cell_c)
                  THEN "Very anisotropic grid spacings"
               ELSE None
    IN  [err |-> err, N_c |-> N_c, cell_c |-> cell_c, pbc_c |-> pbc_c,
         parsize_c |-> parsize_c, parpos_c |-> parpos_c, rank |-> rank,
         n_cp |-> n_cp, beg_c |-> beg_c, end_c |-> end_c,
         n_c |-> [c \in Axes |-> end_c[c] - beg_c[c]],
         use_fixed_bc |-> FALSE]

Ranks(parsize_c) == 0..(Prod3(parsize_c) - 1)

(***************************************************************************)
(* The construction model: every rank of the communicator calls the        *)
(* constructor with the same arguments.                                    *)
(***************************************************************************)
\* the variables of the collect/distribute model, when it is not running
CommIdle ==
    /\ pc = <<>> /\ B_xg = <<>> /\ b_xg = <<>> /\ requests = <<>>
    /\ msgs = {} /\ r_loop = 0 /\ A_xg = <<>> /\ bcast = <<>>
    /\ ret = <<>> /\ log = <<>>

\* no get_boxes() call is running
BoxesIdle == gb = <<>>

\* no diagonalize() call is running
DiagIdle ==
    /\ dcfg = <<>> /\ dpc = <<>> /\ H_NN = <<>> /\ eps_N = <<>>
    /\ eps_n = <<>> /\ band_msgs = {} /\ band_bcast = <<>>
    /\ grid_bcast = <<>> /\ dcall = <<>>

\* no Eigensolver.iterate() call is modelled
IterIdle == es = <<>> /\ wfs = <<>> /\ it = <<>>

\* no PairOverlap object is modelled
PairIdle == po = <<>> /\ X_aa = <<>> /\ px = <<>>

\* no integrate() call is running
IntIdle == icfg = <<>> /\ ipc = <<>> /\ contrib = <<>> /\ iret = <<>>

\* no ProjectorPairOverlap call is running
ProjIdle == pp = <<>> /\ wk = <<>> /\ hist = <<>>

\* no ProjectorPairOverlap.update() call is modelled
UpdIdle == up = <<>>

\* no subspace diagonalization is running
SubIdle == sd = <<>>

\* no convergence check is in progress
ConvIdle == ccfg = <<>> /\ cw = <<>>

\* no non-blocking exchange is in progress
NBIdle == xrun = <<>> /\ xp = <<>> /\ xbuf = <<>> /\ xreq = <<>> /\ xchan = <<>> /\ xev = {}

\* no coarsen() has been called
CRIdle == cr = <<>>

\* no radial grid descriptor is modelled
RadIdle == rad = <<>>

\* no sequence of diagonalize calls is modelled
RotIdle == tb = <<>>

\* no Poisson solve is modelled
PsIdle == ps = <<>>

\* no eigensolver buffer is modelled
KeepIdle == ks = <<>>

\* no grid descriptor is in use
GDIdle == gd_pc = "none" /\ gd_r = <<>> /\ ctor = <<>>

InitGD ==
    /\ gd_pc = "new"
    /\ gd_r = <<>>
    /\ ctor = <<>>
    /\ CommIdle
    /\ BoxesIdle
    /\ DiagIdle
    /\ IterIdle
    /\ PairIdle
    /\ IntIdle
    /\ ProjIdle
    /\ UpdIdle
    /\ SubIdle
    /\ ConvIdle
    /\ NBIdle
    /\ CRIdle
    /\ RadIdle
    /\ RotIdle
    /\ PsIdle
    /\ KeepIdle

Construct ==
    /\ gd_pc = "new"
    /\ \E N_c \in [Axes -> 0..MaxN], pbc_c \in [Axes -> BOOLEAN],
          parsize_c \in [Axes -> 1..MaxPar], cell_c \in Cells :
          /\ ctor' = [N_c |-> N_c, pbc_c |-> pbc_c, parsize_c |-> parsize_c,
                      cell_c |-> cell_c]
          /\ gd_r' = [r \in Ranks(parsize_c) |->
                         GridDescriptor(N_c, cell_c, pbc_c, parsize_c, r)]
          /\ gd_pc' = IF GridDescriptor(N_c, cell_c, pbc_c, parsize_c, 0).err
                          = None
                       THEN "built" ELSE "raised"
    /\ UNCHANGED restGD

NextGD == Construct

SpecGD == InitGD /\ [][NextGD]_vars

Constructed == gd_pc = "built"

C8_GridTooSmallRaised ==
    (/\ gd_pc # "new"
     /\ \E c \in Axes : \E p \in 0..(ctor.parsize_c[c] - 1) :
           gd_r[0].n_cp[c][p + 1] - gd_r[0].n_cp[c][p] <= 0)
    => \A r \in DOMAIN gd_r : gd_r[r].err = "Grid too small!"

(***************************************************************************)
(* Arrays over the grid: a shape and a value per index triple.             *)
(***************************************************************************)
Uninit == -1        \* what np.empty() leaves in an element

Idx(shape) == (0..(shape[0] - 1)) \X (0..(shape[1] - 1)) \X (0..(shape[2] - 1))

empty(shape) == [shape |-> shape, v |-> [I \in Idx(shape) |-> Uninit]]

InBox(G, b, e) == \A c \in Axes : b[c] <= G[c + 1] /\ G[c + 1] < e[c]

\* a mutant of GetSlice: the block is read from the origin of the array
GetSlice_origin(A, b, e) ==
    LET sh == [c \in Axes |-> e[c] - b[c]]
    IN  [shape |-> sh, v |-> [I \in Idx(sh) |-> A.v[I]]]

\* A_xg[..., b0:e0, b1:e1, b2:e2].copy()
GetSlice(A, b, e) ==
    LET sh == [c \in Axes |-> e[c] - b[c]]
    IN  [shape |-> sh,
         v |-> [I \in Idx(sh) |-> A.v[<<I[1] + b[0], I[2] + b[1], I[3] + b[2]>>]]]

\* A_xg[..., b0:e0, b1:e1, b2:e2] = a_xg
SetSlice(A, b, e, a) ==
    [A EXCEPT !.v = [G \in DOMAIN A.v |->
        IF InBox(G, b, e)
        THEN a.v[<<G[1] - b[0], G[2] - b[1], G[3] - b[2]>>]
        ELSE A.v[G]]]

\* lines 146-150
get_size_of_global_array(g) ==
    [c \in Axes |-> g.N_c[c] - 1 + (IF g.pbc_c[c] THEN 1 ELSE 0)]

(***************************************************************************)
(* GridDescriptor.collect / GridDescriptor.distribute                      *)
(***************************************************************************)
\* a mutant of loop_position: the loop nest runs over the axes in the
\* opposite order, n0 innermost
loop_position_reversed(r, parsize_c) ==
    [c \in Axes |->
        CASE c = 2 -> r \div (parsize_c[1] * parsize_c[0])
          [] c = 1 -> (r \div parsize_c[0]) % parsize_c[1]
          [] c = 0 -> r % parsize_c[0]]

\* the loop nest "for n0 .. for n1 .. for n2 .. r += 1": (n0, n1, n2) at r
loop_position(r, parsize_c) ==
    [c \in Axes |->
        CASE c = 0 -> r \div (parsize_c[1] * parsize_c[2])
          [] c = 1 -> (r \div parsize_c[2]) % parsize_c[1]
          [] c = 2 -> r % parsize_c[2]]

\* b0, b1, b2 = self.n_cp[c][n:n + 2][0] - self.beg_c[c] on the master
slice_b(g, r) ==
    [c \in Axes |-> g.n_cp[c][loop_position(r, g.parsize_c)[c]] - g.beg_c[c]]

\* e0, e1, e2 = self.n_cp[c][n:n + 2][1] - self.beg_c[c] on the master
slice_e(g, r) ==
    [c \in Axes |->
        g.n_cp[c][loop_position(r, g.parsize_c)[c] + 1] - g.beg_c[c]]

size == Cardinality(DOMAIN gd_r)
Slaves == DOMAIN gd_r \ {0}

RetNone == [kind |-> "None"]
RetArray(a) == [kind |-> "array", a |-> a]

\* distribute(), comm.size == 1 (lines 388-390): b_xg[:] = B_xg
Distribute1 ==
    /\ size = 1 /\ pc[0] = "distribute"
    /\ IF B_xg.shape = b_xg[0].shape
       THEN /\ b_xg' = [b_xg EXCEPT ![0] = B_xg]
            /\ pc' = [pc EXCEPT ![0] = "collect"]
       ELSE /\ pc' = [pc EXCEPT ![0] = "error"]
            /\ UNCHANGED b_xg
    /\ UNCHANGED <<gdvars, restComm, B_xg, requests, msgs, r_loop, A_xg, bcast, ret, log>>

\* distribute() on the master (lines 395-414): the own block is copied and
\* one non-blocking send is posted per slave, in rank order
DistributeRoot ==
    /\ size > 1 /\ pc[0] = "distribute"
    /\ LET g == gd_r[0]
           a_xg(r) == GetSlice(B_xg, slice_b(g, r), slice_e(g, r))
       IN  /\ msgs' = msgs \cup {[src |-> 0, dst |-> r, tag |-> 42,
                                  data |-> a_xg(r)] : r \in Slaves}
           /\ requests' = [i \in 1..(size - 1) |-> [dst |-> i, a_xg |-> a_xg(i),
                                             waited |-> FALSE]]
           /\ IF a_xg(0).shape = b_xg[0].shape
              THEN /\ b_xg' = [b_xg EXCEPT ![0] = a_xg(0)]
                   /\ pc' = [pc EXCEPT ![0] = "distribute_wait"]
              ELSE /\ pc' = [pc EXCEPT ![0] = "error"]
                   /\ UNCHANGED b_xg
    /\ UNCHANGED <<gdvars, restComm, B_xg, r_loop, A_xg, bcast, ret, log>>

\* distribute() on the master (lines 416-417): self.comm.wait(request) for
\* every request of the list, then return; a standard-mode send may
\* complete before it is received, so the waits never depend on the slaves
DistributeWait ==
    /\ pc[0] = "distribute_wait"
    /\ requests' = [i \in DOMAIN requests |->
                       [requests[i] EXCEPT !.waited = TRUE]]
    /\ pc' = [pc EXCEPT ![0] = "collect"]
    /\ UNCHANGED <<gdvars, restComm, B_xg, b_xg, msgs, r_loop, A_xg, bcast, ret, log>>

\* distribute() on a slave (lines 392-394): self.comm.receive(b_xg, 0, 42)
DistributeReceive(r) ==
    /\ r # 0 /\ pc[r] = "distribute"
    /\ \E m \in msgs :
          /\ m.dst = r /\ m.src = 0 /\ m.tag = 42
          /\ msgs' = msgs \ {m}
          /\ IF m.data.shape = b_xg[r].shape
             THEN /\ b_xg' = [b_xg EXCEPT ![r] = m.data]
                  /\ pc' = [pc EXCEPT ![r] = "collect"]
             ELSE /\ pc' = [pc EXCEPT ![r] = "error"]
                  /\ UNCHANGED b_xg
    /\ UNCHANGED <<gdvars, restComm, B_xg, requests, r_loop, A_xg, bcast, ret, log>>

\* collect(), comm.size == 1 (lines 342-343): return a_xg
Collect1 ==
    /\ size = 1 /\ pc[0] = "collect"
    /\ ret' = [ret EXCEPT ![0] = RetArray(b_xg[0])]
    /\ pc' = [pc EXCEPT ![0] = "done"]
    /\ UNCHANGED <<gdvars, restComm, B_xg, b_xg, requests, msgs, r_loop, A_xg, bcast, log>>

\* collect() on the master (lines 361-376), r = 0: A_xg is allocated and the
\* master's own block is put in
CollectRoot ==
    /\ size > 1 /\ pc[0] = "collect"
    /\ LET g == gd_r[0]
           A == empty(get_size_of_global_array(g))
           b == slice_b(g, 0)
           e == slice_e(g, 0)
       IN  IF b_xg[0].shape = [c \in Axes |-> e[c] - b[c]]
           THEN /\ A_xg' = [A_xg EXCEPT ![0] = SetSlice(A, b, e, b_xg[0])]
                /\ log' = [recv |-> <<>>,
                           writes |-> [G \in DOMAIN A.v |->
                                          IF InBox(G, b, e) THEN 1 ELSE 0]]
                /\ r_loop' = 1
                /\ pc' = [pc EXCEPT ![0] = "collect_loop"]
           ELSE /\ pc' = [pc EXCEPT ![0] = "error"]
                /\ UNCHANGED <<A_xg, log, r_loop>>
    /\ UNCHANGED <<gdvars, restComm, B_xg, b_xg, requests, msgs, bcast, ret>>

\* collect(): the master's self.comm.receive(a_xg, r, 301) (lines 370-376)
\* meets the synchronous send of rank r (line 351), which then returns
CollectReceive ==
    /\ pc[0] = "collect_loop" /\ r_loop < size
    /\ pc[r_loop] = "collect"
    /\ LET g == gd_r[0]
           r == r_loop
           b == slice_b(g, r)
           e == slice_e(g, r)
       IN  IF b_xg[r].shape = [c \in Axes |-> e[c] - b[c]]
           THEN /\ A_xg' = [A_xg EXCEPT ![0] = SetSlice(@, b, e, b_xg[r])]
                /\ log' = [recv |-> Append(log.recv, r),
                           writes |-> [G \in DOMAIN log.writes |->
                                          IF InBox(G, b, e)
                                          THEN log.writes[G] + 1
                                          ELSE log.writes[G]]]
                /\ r_loop' = r_loop + 1
                /\ pc' = [pc EXCEPT ![r] = IF ctor.broadcast
                                          THEN "collect_bcast" ELSE "done"]
                /\ ret' = [ret EXCEPT ![r] = RetNone]
           ELSE /\ pc' = [pc EXCEPT ![0] = "error"]
                /\ UNCHANGED <<A_xg, log, r_loop, ret>>
    /\ UNCHANGED <<gdvars, restComm, B_xg, b_xg, requests, msgs, bcast>>

\* collect() on the master (lines 377-379): broadcast if asked, return A_xg
CollectReturn ==
    /\ pc[0] = "collect_loop" /\ r_loop = size
    /\ bcast' = IF ctor.broadcast THEN <<A_xg[0]>> ELSE bcast
    /\ ret' = [ret EXCEPT ![0] = RetArray(A_xg[0])]
    /\ pc' = [pc EXCEPT ![0] = "done"]
    /\ UNCHANGED <<gdvars, restComm, B_xg, b_xg, requests, msgs, r_loop, A_xg, log>>

\* collect() on a slave with broadcast (lines 352-355)
CollectBroadcast(r) ==
    /\ r # 0 /\ pc[r] = "collect_bcast"
    /\ bcast # <<>>
    /\ A_xg' = [A_xg EXCEPT ![r] = bcast[1]]
    /\ ret' = [ret EXCEPT ![r] = RetArray(bcast[1])]
    /\ pc' = [pc EXCEPT ![r] = "done"]
    /\ UNCHANGED <<gdvars, restComm, B_xg, b_xg, requests, msgs, r_loop, bcast, log>>

(***************************************************************************)
(* The collect/distribute model: on a built descriptor every rank calls    *)
(* distribute(B_xg, b_xg) and then collect(b_xg, broadcast).               *)
(***************************************************************************)
MaxExtra == 1       \* grid points per axis beyond the smallest valid grid

CommSizes == {1, 2, 8}

\* B_xg[G] is the position of G in B_xg.ravel(), counted from 1
Ravel(shape) ==
    [shape |-> shape,
     v |-> [G \in Idx(shape) |->
               1 + G[3] + shape[2] * (G[2] + shape[1] * G[1])]]

InitComm ==
    \E parsize_c \in [Axes -> 1..8], pbc_c \in [Axes -> BOOLEAN],
       x \in 0..MaxExtra, broadcast \in BOOLEAN :
       LET N_c == [c \in Axes |->
                      parsize_c[c] + (IF pbc_c[c] THEN 0 ELSE 1) + x]
           gd(r) == GridDescriptor(N_c, N_c, pbc_c, parsize_c, r)
       IN  /\ Prod3(parsize_c) \in CommSizes
           /\ gd(0).err = None
           /\ gd_pc = "built"
           /\ gd_r = [r \in Ranks(parsize_c) |-> gd(r)]
           /\ ctor = [N_c |-> N_c, pbc_c |-> pbc_c, parsize_c |-> parsize_c,
                      cell_c |-> N_c, broadcast |-> broadcast]
           /\ pc = [r \in Ranks(parsize_c) |-> "distribute"]
           /\ B_xg = Ravel(get_size_of_global_array(gd(0)))
           /\ b_xg = [r \in Ranks(parsize_c) |-> empty(gd(r).n_c)]
           /\ requests = <<>>
           /\ msgs = {}
           /\ r_loop = 0
           /\ A_xg = [r \in Ranks(parsize_c) |-> <<>>]
           /\ bcast = <<>>
           /\ ret = [r \in Ranks(parsize_c) |-> <<>>]
           /\ log = <<>>
           /\ BoxesIdle
           /\ DiagIdle
           /\ IterIdle
           /\ PairIdle
           /\ IntIdle
           /\ ProjIdle
           /\ UpdIdle
           /\ SubIdle
           /\ ConvIdle
           /\ NBIdle
           /\ CRIdle
           /\ RadIdle
           /\ RotIdle
           /\ PsIdle
           /\ KeepIdle

NextComm ==
    \/ Distribute1
    \/ DistributeRoot
    \/ DistributeWait
    \/ \E r \in DOMAIN gd_r : DistributeReceive(r)
    \/ Collect1
    \/ CollectRoot
    \/ CollectReceive
    \/ CollectReturn
    \/ \E r \in DOMAIN gd_r : CollectBroadcast(r)

SpecComm == InitComm /\ [][NextComm]_vars

AllReturned == \A r \in DOMAIN pc : pc[r] = "done"

(***************************************************************************)
(* C2: after distribute(B, b) and collect(b) on communicators of size 1,   *)
(* 2 and 8 the array returned on the master equals B element for element,  *)
(* and both calls return on every rank (no rank is ever stuck or fails).   *)
(***************************************************************************)
C2_RoundTrip ==
    /\ AllReturned => ret[0] = RetArray(B_xg)
    /\ ~AllReturned => ENABLED NextComm

C2_Witness ==
    /\ AllReturned /\ size = 8 /\ ctor.parsize_c[0] = 2 /\ ctor.parsize_c[1] = 2
    /\ \E c \in Axes : ~ctor.pbc_c[c]
    /\ \E c \in Axes : ctor.pbc_c[c]

(***************************************************************************)
(* C3: collect on more than one rank puts the block of rank                *)
(* r = n2 + P2 * (n1 + P1 * n0) at [n_cp[c][n_c] - beg0_c,                 *)
(* n_cp[c][n_c + 1] - beg0_c) on every axis, receives the blocks in        *)
(* ascending rank order and writes every element of the global array       *)
(* exactly once; without broadcast only rank 0 returns the array and the   *)
(* others None, with broadcast every rank returns the same array.          *)
(***************************************************************************)
C3_CollectPlacement ==
    size > 1 =>
      /\ pc[0] \in {"collect_loop", "done"} =>
          /\ log.recv = [i \in 1..(r_loop - 1) |-> i]
          /\ \A n0 \in 0..(ctor.parsize_c[0] - 1),
                n1 \in 0..(ctor.parsize_c[1] - 1),
                n2 \in 0..(ctor.parsize_c[2] - 1) :
                LET r == n2 + ctor.parsize_c[2] * (n1 + ctor.parsize_c[1] * n0)
                    n == <<n0, n1, n2>>
                    off == [c \in Axes |->
                              gd_r[0].n_cp[c][n[c + 1]] - gd_r[0].beg_c[c]]
                    len == [c \in Axes |->
                              gd_r[0].n_cp[c][n[c + 1] + 1] -
                              gd_r[0].n_cp[c][n[c + 1]]]
                IN  r < r_loop =>
                      /\ b_xg[r].shape = len
                      /\ \A I \in Idx(len) :
                            A_xg[0].v[<<I[1] + off[0], I[2] + off[1],
                                        I[3] + off[2]>>] = b_xg[r].v[I]
      /\ pc[0] = "done" => \A G \in DOMAIN log.writes : log.writes[G] = 1
      /\ AllReturned =>
          /\ ret[0] = RetArray(A_xg[0])
          /\ \A r \in Slaves :
                ret[r] = IF ctor.broadcast THEN ret[0] ELSE RetNone

C3_Witness ==
    /\ AllReturned /\ ctor.broadcast
    /\ ctor.parsize_c[0] = 4 /\ ctor.parsize_c[1] = 1 /\ ctor.parsize_c[2] = 2
    /\ ~ctor.pbc_c[0] /\ ctor.N_c[2] = 3

(***************************************************************************)
(* GridDescriptor.get_boxes on one rank.  spos_c is given in quarters of   *)
(* the cell and the cell is orthorhombic with edges cell_c, so that        *)
(* npos_c = spos * N_c / 4 and ncut = rcut * N_c / cell_c are rationals    *)
(* and np.ceil is computed exactly.                                        *)
(***************************************************************************)
MaxBoxN == 3        \* grid points per axis in the get_boxes model

SposChoices == {<<0, 1, 2>>, <<1, 2, 3>>, <<2, 3, 0>>, <<3, 0, 1>>}
RcutChoices == {1, 3, 5}

CeilDiv(a, d) == -((-a) \div d)

\* line 245: np.ceil(npos_c - ncut) for axis c
ceil_beg(g, spos, rcut, c) ==
    CeilDiv(g.N_c[c] * (spos[c + 1] * g.cell_c[c] - 4 * rcut),
            4 * g.cell_c[c])

\* line 246: np.ceil(npos_c + ncut) for axis c
ceil_end(g, spos, rcut, c) ==
    CeilDiv(g.N_c[c] * (spos[c + 1] * g.cell_c[c] + 4 * rcut),
            4 * g.cell_c[c])

Min(a, b) == IF a < b THEN a ELSE b
Max(a, b) == IF a > b THEN a ELSE b

self == gd_r[gb.rank]

\* a mutant of ClipOrRaise: the use_fixed_bc attribute is not looked at
ClipOrRaise_cut_only(cut, use_fixed_bc) == cut

\* line 248: whether the box is clipped (otherwise the atom may be too close)
ClipOrRaise(cut, use_fixed_bc) == cut \/ use_fixed_bc

\* lines 241-262: the bounding box, clipped or refused at the free boundaries
GetBoxesBounds ==
    /\ gb # <<>> /\ gb.pc = "call"
    /\ LET N_c == self.N_c
           beg0 == [c \in Axes |-> ceil_beg(self, gb.spos_c, gb.rcut, c)]
           end0 == [c \in Axes |-> ceil_end(self, gb.spos_c, gb.rcut, c)]
           clip == ClipOrRaise(gb.cut, self.use_fixed_bc)
           beg_c == [c \in Axes |->
                        IF clip /\ ~self.pbc_c[c] /\ beg0[c] < 0
                        THEN 0 ELSE beg0[c]]
           end_c == [c \in Axes |->
                        IF clip /\ ~self.pbc_c[c] /\ end0[c] > N_c[c]
                        THEN N_c[c] ELSE end0[c]]
           tooclose == \E c \in Axes :
                          ~self.pbc_c[c] /\ (beg0[c] < 0 \/ end0[c] > N_c[c])
       IN  IF ~clip /\ tooclose
           THEN gb' = [gb EXCEPT !.pc = "raised", !.beg_c = beg0,
                                 !.end_c = end0]
           ELSE gb' = [gb EXCEPT !.pc = "loop", !.beg_c = beg_c,
                                 !.end_c = end_c, !.c = 0,
                                 !.b = beg_c[0], !.e = beg_c[0]]
    /\ UNCHANGED <<gdvars, restBoxes>>

\* a mutant of segment_end: the segment always runs to the end of the range
segment_end_unsplit(b, end, N) == end

\* a mutant of segment_end: a segment is a whole cell long wherever it starts
segment_end_whole_cells(b, end, N) == Min(end, b + N)

\* line 273: the end of the periodic image that holds b
segment_end(b, end, N) == Min(end, b + N - (b % N))

\* lines 270-288: one iteration of "while e < end_c[c]"
GetBoxesIterate ==
    /\ gb # <<>> /\ gb.pc = "loop" /\ gb.c <= 2
    /\ gb.e < gb.end_c[gb.c]
    /\ LET c == gb.c
           b == gb.b
           N == self.N_c[c]
           b0 == b % N
           e == segment_end(b, gb.end_c[c], N)
           b1 == IF b0 < self.beg_c[c] THEN b + self.beg_c[c] - b0 ELSE b
           e0 == b0 - b + e
           e1 == IF e0 > self.end_c[c] THEN e - (e0 - self.end_c[c]) ELSE e
       IN  gb' = [gb EXCEPT !.e = e, !.b = e,
                            !.range_c[c] = IF e1 > b1 THEN Append(@, <<b1, e1>>)
                                           ELSE @,
                            !.iters = @ + 1]
    /\ UNCHANGED <<gdvars, restBoxes>>

\* lines 266-270: the while loop of axis c is over, on to the next axis
GetBoxesNextAxis ==
    /\ gb # <<>> /\ gb.pc = "loop" /\ gb.c <= 2
    /\ ~(gb.e < gb.end_c[gb.c])
    /\ gb' = IF gb.c = 2
             THEN [gb EXCEPT !.pc = "boxes"]
             ELSE [gb EXCEPT !.c = @ + 1, !.b = gb.beg_c[gb.c + 1],
                             !.e = gb.beg_c[gb.c + 1], !.iters = 0]
    /\ UNCHANGED <<gdvars, restBoxes>>

\* lines 295-305: the box of one combination of ranges, empty if it is skipped
box_of(g, r0, r1, r2) ==
    LET r == <<r0, r1, r2>>
        beg_c == [c \in Axes |-> r[c + 1][1] % g.N_c[c]]
        end_c == [c \in Axes |-> beg_c[c] + r[c + 1][2] - r[c + 1][1]]
        disp == [c \in Axes |-> (r[c + 1][1] - beg_c[c]) \div g.N_c[c]]
        beg1 == [c \in Axes |-> Max(beg_c[c], g.beg_c[c])]
        end1 == [c \in Axes |-> Min(end_c[c], g.end_c[c])]
    IN  IF \A c \in Axes : beg1[c] < end1[c]
        THEN <<[beg_c |-> beg1, end_c |-> end1, disp |-> disp]>>
        ELSE <<>>

RECURSIVE Concat(_)
Concat(ss) == IF ss = <<>> THEN <<>> ELSE Head(ss) \o Concat(Tail(ss))

\* lines 290-307: the three nested loops over the ranges of the axes
GetBoxesReturn ==
    /\ gb # <<>> /\ gb.pc = "boxes"
    /\ LET R == gb.range_c
           boxes == Concat([i \in 1..Len(R[0]) |->
                      Concat([j \in 1..Len(R[1]) |->
                        Concat([k \in 1..Len(R[2]) |->
                          box_of(self, R[0][i], R[1][j], R[2][k])])])])
       IN  gb' = [gb EXCEPT !.pc = "returned", !.boxes = boxes]
    /\ UNCHANGED <<gdvars, restBoxes>>

InitBoxes ==
    \E N_c \in [Axes -> 1..MaxBoxN], cell_c \in Cells,
       pbc_c \in [Axes -> BOOLEAN], parsize_c \in [Axes -> 1..MaxPar] :
       /\ GridDescriptor(N_c, cell_c, pbc_c, parsize_c, 0).err = None
       /\ gd_pc = "built"
       /\ ctor = [N_c |-> N_c, pbc_c |-> pbc_c,
                  parsize_c |-> parsize_c, cell_c |-> cell_c]
       /\ \E rank \in Ranks(parsize_c), use_fixed_bc \in BOOLEAN :
             /\ gd_r = [r \in {rank} |->
                           [GridDescriptor(N_c, cell_c, pbc_c, parsize_c, r)
                               EXCEPT !.use_fixed_bc = use_fixed_bc]]
             /\ \E spos_c \in SposChoices, rcut \in RcutChoices,
                   cut \in BOOLEAN :
                   gb = [pc |-> "call", rank |-> rank, spos_c |-> spos_c,
                         rcut |-> rcut, cut |-> cut,
                         beg_c |-> <<>>, end_c |-> <<>>, c |-> 0, b |-> 0,
                         e |-> 0, range_c |-> [c \in Axes |-> <<>>],
                         boxes |-> <<>>, iters |-> 0]
       /\ CommIdle
       /\ DiagIdle
       /\ IterIdle
       /\ PairIdle
       /\ IntIdle
       /\ ProjIdle
       /\ UpdIdle
       /\ SubIdle
       /\ ConvIdle
       /\ NBIdle
       /\ CRIdle
       /\ RadIdle
       /\ RotIdle
       /\ PsIdle
       /\ KeepIdle

NextBoxes ==
    \/ GetBoxesBounds
    \/ GetBoxesIterate
    \/ GetBoxesNextAxis
    \/ GetBoxesReturn

SpecBoxes == InitBoxes /\ [][NextBoxes]_vars

\* the unwrapped grid point g lies in the returned triple box
Contains(box, g) ==
    \A c \in Axes :
        /\ box.disp[c] = g[c + 1] \div self.N_c[c]
        /\ box.beg_c[c] <= g[c + 1] - box.disp[c] * self.N_c[c]
        /\ g[c + 1] - box.disp[c] * self.N_c[c] < box.end_c[c]

\* the returned triples are exactly the per-image intersections of the
\* index box [B, E) with the sub-domain of this rank
ExactBoxes(B, E) ==
    LET N_c == self.N_c
        Req(c) == {g \in B[c]..(E[c] - 1) :
                      g % N_c[c] \in Range(self.beg_c[c], self.end_c[c])}
    IN  /\ \A g \in Req(0) \X Req(1) \X Req(2) :
              Cardinality({k \in 1..Len(gb.boxes) :
                              Contains(gb.boxes[k], g)}) = 1
        /\ \A k \in 1..Len(gb.boxes) : \A c \in Axes :
              LET box == gb.boxes[k]
              IN  /\ self.beg_c[c] <= box.beg_c[c]
                  /\ box.beg_c[c] < box.end_c[c]
                  /\ box.end_c[c] <= self.end_c[c]
                  /\ B[c] <= box.beg_c[c] + box.disp[c] * N_c[c]
                  /\ box.end_c[c] + box.disp[c] * N_c[c] <= E[c]

(***************************************************************************)
(* C4 as stated: with B_c = ceil(spos_c N_c - ncut_c) and                  *)
(* E_c = ceil(spos_c N_c + ncut_c) every unwrapped index g in [B, E) whose *)
(* wrapped index lies in this rank's [beg_c, end_c) is in exactly one      *)
(* returned triple, with disp_c = floor(g_c / N_c); every returned box is  *)
(* non-empty, inside [beg_c, end_c) and holds no other point.              *)
(***************************************************************************)
C4_BoxesExact_Unclipped ==
    gb.pc = "returned" =>
        ExactBoxes([c \in Axes |-> ceil_beg(self, gb.spos_c, gb.rcut, c)],
                   [c \in Axes |-> ceil_end(self, gb.spos_c, gb.rcut, c)])

(***************************************************************************)
(* C4 as amended: the same, for the index box [B, E) after get_boxes has   *)
(* clipped it to [0, N_c] on the non-periodic axes (cut or use_fixed_bc).  *)
(***************************************************************************)
C4_BoxesExact ==
    gb.pc = "returned" => ExactBoxes(gb.beg_c, gb.end_c)

\* a sphere wider than the cell on a split periodic axis, several boxes
C4_Witness ==
    /\ gb.pc = "returned" /\ Len(gb.boxes) >= 4
    /\ \E c \in Axes : /\ self.pbc_c[c] /\ self.parsize_c[c] >= 2
                       /\ gb.end_c[c] - gb.beg_c[c] > 2 * self.N_c[c]
    /\ \E c \in Axes : ~self.pbc_c[c] /\ gb.beg_c[c] = 0

\* on some non-periodic axis the bounding range leaves [0, N_c]
TooClose ==
    \E c \in Axes :
        /\ ~self.pbc_c[c]
        /\ \/ ceil_beg(self, gb.spos_c, gb.rcut, c) < 0
           \/ ceil_end(self, gb.spos_c, gb.rcut, c) > self.N_c[c]

\* the bounding range is the computed one, cut to [0, N_c] on the
\* non-periodic axes
Clipped ==
    \A c \in Axes :
        LET beg0 == ceil_beg(self, gb.spos_c, gb.rcut, c)
            end0 == ceil_end(self, gb.spos_c, gb.rcut, c)
        IN  IF self.pbc_c[c]
            THEN gb.beg_c[c] = beg0 /\ gb.end_c[c] = end0
            ELSE /\ gb.beg_c[c] = Max(beg0, 0)
                 /\ gb.end_c[c] = Min(end0, self.N_c[c])

(***************************************************************************)
(* C9 as stated: get_boxes(spos_c, rcut, cut=False) raises and returns no  *)
(* boxes whenever the bounding range leaves [0, N_c] on a non-periodic     *)
(* axis, whatever use_fixed_bc is; with cut=True it never raises and the   *)
(* range is clipped.                                                       *)
(***************************************************************************)
C9_RaisesTooClose_AnyFixedBC ==
    gb.pc # "call" =>
        /\ (~gb.cut /\ TooClose) => (gb.pc = "raised" /\ gb.boxes = <<>>)
        /\ gb.cut => (gb.pc # "raised" /\ Clipped)

(***************************************************************************)
(* C9 as amended: with cut=False the call raises (and returns no boxes)    *)
(* exactly when the bounding range leaves [0, N_c] on a non-periodic axis  *)
(* and use_fixed_bc is false; with cut=True or use_fixed_bc true it never  *)
(* raises and the range is clipped to [0, N_c] on the non-periodic axes.   *)
(***************************************************************************)
C9_RaisesTooClose ==
    gb.pc # "call" =>
        /\ (~gb.cut /\ ~self.use_fixed_bc /\ TooClose)
              => (gb.pc = "raised" /\ gb.boxes = <<>>)
        /\ (gb.cut \/ self.use_fixed_bc) => (gb.pc # "raised" /\ Clipped)
        /\ gb.pc = "raised" => (~gb.cut /\ ~self.use_fixed_bc /\ TooClose)

C9_Witness ==
    /\ gb.pc = "raised" /\ ~gb.cut /\ ~self.use_fixed_bc
    /\ \E c \in Axes : self.pbc_c[c]

(***************************************************************************)
(* BaseDiagonalizer.diagonalize with the serial LapackDiagonalizer, on the *)
(* workers of one k-point: worker <<g, b>> has rank g in gd.comm and rank  *)
(* b in bd.comm.  The dense solve is abstract: it turns H into             *)
(* Eigenvectors(H) and fills eps_N with Eigenvalues(H).                    *)
(***************************************************************************)
MaxGridRanks == 2   \* ranks of the domain communicator
MaxBandRanks == 2   \* ranks of the band communicator
MaxMyBands == 2     \* bands per band rank

\* the matrices the root may hold on entry
HChoices == {[kind |-> "H", of |-> "Ha"], [kind |-> "H", of |-> "Hb"]}

Eigenvectors(H) == [kind |-> "eigenvectors", of |-> H.of]
Eigenvalues(H, nbands) ==
    [n \in 1..nbands |-> [kind |-> "eigenvalue", n |-> n, of |-> H.of]]
np_empty(n) == [i \in 1..n |-> [kind |-> "uninitialized", n |-> 0, of |-> ""]]

Workers == (0..(dcfg.gsize - 1)) \X (0..(dcfg.bsize - 1))
root == <<0, 0>>

\* the statuses the dense solve may return
InfoChoices == {-2, 0, 1}

\* line 30
RuntimeError(info) == <<"RuntimeError", "Failed to diagonalize: %d", info>>

\* the bands of band rank b: a contiguous block of eps_N
band_slice(eps, b) ==
    SubSeq(eps, b * dcfg.mynbands + 1, (b + 1) * dcfg.mynbands)

\* a mutant of Diagonalize: the status is not looked at
Diagonalize_info_ignored(w) ==
    /\ dpc[w] = "_diagonalize"
    /\ eps_N' = [eps_N EXCEPT ![w] =
                    IF w = root THEN Eigenvalues(H_NN[w], dcfg.nbands)
                    ELSE np_empty(dcfg.nbands)]
    /\ H_NN' = [H_NN EXCEPT ![w] = IF w = root THEN Eigenvectors(@) ELSE @]
    /\ \E info \in IF w = root THEN InfoChoices ELSE {0} :
          /\ dpc' = [dpc EXCEPT ![w] =
                        IF FALSE THEN "raised"
                        ELSE IF w[1] = 0 THEN "bd.distribute"
                        ELSE "gd.broadcast H_NN"]
          /\ dcall' = [dcall EXCEPT ![w] =
                          [tries |-> @.tries + 1,
                           solves |-> @.solves + (IF w = root THEN 1 ELSE 0),
                           info |-> info,
                           exc |-> IF FALSE THEN RuntimeError(info)
                                   ELSE <<>>]]
    /\ UNCHANGED <<restDiag, dcfg, eps_n, band_msgs, band_bcast, grid_bcast>>

\* lines 26-30 and 66-71: only the root solves, the others get info = 0;
\* a non-zero info raises
Diagonalize(w) ==
    /\ dpc[w] = "_diagonalize"
    /\ eps_N' = [eps_N EXCEPT ![w] =
                    IF w = root THEN Eigenvalues(H_NN[w], dcfg.nbands)
                    ELSE np_empty(dcfg.nbands)]
    /\ H_NN' = [H_NN EXCEPT ![w] = IF w = root THEN Eigenvectors(@) ELSE @]
    /\ \E info \in IF w = root THEN InfoChoices ELSE {0} :
          /\ dpc' = [dpc EXCEPT ![w] =
                        IF info # 0 THEN "raised"
                        ELSE IF w[1] = 0 THEN "bd.distribute"
                        ELSE "gd.broadcast H_NN"]
          /\ dcall' = [dcall EXCEPT ![w] =
                          [tries |-> @.tries + 1,
                           solves |-> @.solves + (IF w = root THEN 1 ELSE 0),
                           info |-> info,
                           exc |-> IF info # 0 THEN RuntimeError(info)
                                   ELSE <<>>]]
    /\ UNCHANGED <<restDiag, dcfg, eps_n, band_msgs, band_bcast, grid_bcast>>

\* line 33 on band rank 0 of grid rank 0: the slices go out to the band
\* ranks, the own slice is copied (BandDescriptor.distribute)
BdDistributeRoot ==
    /\ dpc[root] = "bd.distribute"
    /\ eps_n' = [eps_n EXCEPT ![root] = band_slice(eps_N[root], 0)]
    /\ band_msgs' = band_msgs \cup
          {[dst |-> b, data |-> band_slice(eps_N[root], b)] :
              b \in 1..(dcfg.bsize - 1)}
    /\ dpc' = [dpc EXCEPT ![root] = "bd.broadcast"]
    /\ UNCHANGED <<restDiag, dcall, dcfg, H_NN, eps_N, band_bcast, grid_bcast>>

\* line 33 on the other band ranks of grid rank 0: receive the own slice
BdDistributeReceive(w) ==
    /\ w[1] = 0 /\ w[2] # 0 /\ dpc[w] = "bd.distribute"
    /\ \E m \in band_msgs :
          /\ m.dst = w[2]
          /\ band_msgs' = band_msgs \ {m}
          /\ eps_n' = [eps_n EXCEPT ![w] = m.data]
    /\ dpc' = [dpc EXCEPT ![w] = "bd.broadcast"]
    /\ UNCHANGED <<restDiag, dcall, dcfg, H_NN, eps_N, band_bcast, grid_bcast>>

\* line 34: self.bd.comm.broadcast(H_NN, 0) on the workers of grid rank 0
BdBroadcast(w) ==
    /\ w[1] = 0 /\ dpc[w] = "bd.broadcast"
    /\ IF w[2] = 0
       THEN /\ band_bcast' = <<H_NN[w]>>
            /\ UNCHANGED H_NN
       ELSE /\ band_bcast # <<>>
            /\ H_NN' = [H_NN EXCEPT ![w] = band_bcast[1]]
            /\ UNCHANGED band_bcast
    /\ dpc' = [dpc EXCEPT ![w] = "gd.broadcast H_NN"]
    /\ UNCHANGED <<restDiag, dcall, dcfg, eps_N, eps_n, band_msgs, grid_bcast>>

\* line 36: self.gd.comm.broadcast(H_NN, 0)
GdBroadcastH(w) ==
    /\ dpc[w] = "gd.broadcast H_NN"
    /\ IF w[1] = 0
       THEN /\ grid_bcast' = [grid_bcast EXCEPT ![w[2]] = Append(@, H_NN[w])]
            /\ UNCHANGED H_NN
       ELSE /\ Len(grid_bcast[w[2]]) >= 1
            /\ H_NN' = [H_NN EXCEPT ![w] = grid_bcast[w[2]][1]]
            /\ UNCHANGED grid_bcast
    /\ dpc' = [dpc EXCEPT ![w] = "gd.broadcast eps_n"]
    /\ UNCHANGED <<restDiag, dcall, dcfg, eps_N, eps_n, band_msgs, band_bcast>>

\* a mutant of GdBroadcastEps: eps_n is not broadcast on the domain
\* communicator
GdBroadcastEps_skipped(w) ==
    /\ dpc[w] = "gd.broadcast eps_n"
    /\ dpc' = [dpc EXCEPT ![w] = "done"]
    /\ UNCHANGED <<restDiag, dcall, dcfg, H_NN, eps_N, eps_n, band_msgs, band_bcast,
                   grid_bcast>>

\* line 37: self.gd.comm.broadcast(eps_n, 0)
GdBroadcastEps(w) ==
    /\ dpc[w] = "gd.broadcast eps_n"
    /\ IF w[1] = 0
       THEN /\ grid_bcast' = [grid_bcast EXCEPT ![w[2]] = Append(@, eps_n[w])]
            /\ UNCHANGED eps_n
       ELSE /\ Len(grid_bcast[w[2]]) >= 2
            /\ eps_n' = [eps_n EXCEPT ![w] = grid_bcast[w[2]][2]]
            /\ UNCHANGED grid_bcast
    /\ dpc' = [dpc EXCEPT ![w] = "done"]
    /\ UNCHANGED <<restDiag, dcall, dcfg, H_NN, eps_N, band_msgs, band_bcast>>

InitDiag ==
    /\ \E gsize \in 1..MaxGridRanks, bsize \in 1..MaxBandRanks,
          mynbands \in 1..MaxMyBands, H \in HChoices :
          LET W == (0..(gsize - 1)) \X (0..(bsize - 1))
          IN  /\ dcfg = [gsize |-> gsize, bsize |-> bsize,
                         mynbands |-> mynbands, nbands |-> bsize * mynbands,
                         H |-> H]
              /\ dpc = [w \in W |-> "_diagonalize"]
              /\ H_NN = [w \in W |-> IF w = <<0, 0>> THEN H
                                     ELSE [kind |-> "partial sum", of |-> H.of]]
              /\ eps_N = [w \in W |-> <<>>]
              /\ eps_n = [w \in W |-> np_empty(mynbands)]
              /\ grid_bcast = [b \in 0..(bsize - 1) |-> <<>>]
              /\ dcall = [w \in W |-> [tries |-> 0, solves |-> 0, info |-> 0,
                                       exc |-> <<>>]]
    /\ band_msgs = {}
    /\ band_bcast = <<>>
    /\ GDIdle
    /\ CommIdle
    /\ BoxesIdle
    /\ IterIdle
    /\ PairIdle
    /\ IntIdle
    /\ ProjIdle
    /\ UpdIdle
    /\ SubIdle
    /\ ConvIdle
    /\ NBIdle
    /\ CRIdle
    /\ RadIdle
    /\ RotIdle
    /\ PsIdle
    /\ KeepIdle

NextDiag ==
    \/ \E w \in Workers : Diagonalize(w)
    \/ BdDistributeRoot
    \/ \E w \in Workers : BdDistributeReceive(w)
    \/ \E w \in Workers : BdBroadcast(w)
    \/ \E w \in Workers : GdBroadcastH(w)
    \/ \E w \in Workers : GdBroadcastEps(w)

SpecDiag == InitDiag /\ [][NextDiag]_vars

AllDiagonalized == \A w \in Workers : dpc[w] = "done"

(***************************************************************************)
(* C5: once diagonalize has returned on the workers of a k-point, every    *)
(* worker holds the eigenvector matrix computed by the root, and every     *)
(* worker's eps_n is its band rank's slice of the root's eigenvalues, the  *)
(* same on all domain ranks of that band rank.                             *)
(***************************************************************************)
C5_DiagonalizeBroadcast ==
    AllDiagonalized =>
        \A w \in Workers :
            /\ H_NN[w] = Eigenvectors(dcfg.H)
            /\ H_NN[w] = H_NN[root]
            /\ eps_n[w] = band_slice(Eigenvalues(dcfg.H, dcfg.nbands), w[2])
            /\ eps_n[w] = eps_n[<<0, w[2]>>]

C5_Witness ==
    /\ AllDiagonalized /\ dcfg.gsize >= 2 /\ dcfg.bsize >= 2
    /\ dcfg.mynbands >= 2

(***************************************************************************)
(* Eigensolver.iterate on one worker.  wfs.ortho[k] says whether the       *)
(* wave functions of k-point k are orthonormal; wfs.orthonormalized is the *)
(* flag the code tests.                                                    *)
(***************************************************************************)
MaxKpts == 2        \* k-points of the worker
MaxCalls == 2       \* calls of iterate
MaxError == 1       \* an error contribution is in 0..MaxError
MaxBands == 2       \* band counts are in 1..MaxBands

\* kpt.eps_n: None, or an array of which the length and the origin are kept
eps_None == [is_None |-> TRUE, len |-> 0, origin |-> "None"]
eps_array(len, origin) == [is_None |-> FALSE, len |-> len, origin |-> origin]

\* the eps_n a k-point may carry into initialize: None, an array of the
\* worker's band count, an array of one band more
EpsChoices(mynbands) ==
    {eps_None, eps_array(mynbands, "carried"),
     eps_array(mynbands + 1, "carried")}

\* a mutant of eps_n_missing: no k-point is given an array
eps_n_missing_never(eps) == FALSE

\* line 108: kpt.eps_n is None
eps_n_missing(eps) == eps.is_None

\* lines 87-88 and 107-109 of initialize
initialize_eps_n(w) ==
    [w EXCEPT !.eps_n = [k \in DOMAIN @ |->
        IF eps_n_missing(@[k]) THEN eps_array(w.mynbands, "np.empty")
        ELSE @[k]]]

\* wfs.orthonormalize(): orthonormalizes every k-point and sets the flag
orthonormalize(w) ==
    [w EXCEPT !.orthonormalized = TRUE, !.ortho = [k \in DOMAIN @ |-> TRUE]]

Orthonormal == \A k \in DOMAIN wfs.ortho : wfs.ortho[k]

\* a call of iterate starts
IterateCall ==
    /\ it.pc \in {"new", "returned"}
    /\ it.calls < MaxCalls
    /\ it' = [pc |-> "initialize", calls |-> it.calls + 1, k |-> 0,
              error |-> 0, entry_flag |-> wfs.orthonormalized,
              n_first |-> 0, n_final |-> 0]
    /\ UNCHANGED <<restIter, es, wfs>>

\* lines 128-129 with initialize, lines 80-118
IterateInitialize ==
    /\ it.pc = "initialize"
    /\ es' = IF ~es.initialized
             THEN [es EXCEPT !.initialized = TRUE, !.allocated = FALSE,
                             !.mynbands = wfs.mynbands]
             ELSE es
    /\ wfs' = IF ~es.initialized THEN initialize_eps_n(wfs) ELSE wfs
    /\ it' = [it EXCEPT !.pc = "allocate"]
    /\ UNCHANGED restIter

\* lines 131-132
IterateAllocate ==
    /\ it.pc = "allocate"
    /\ es' = [es EXCEPT !.allocated = TRUE]
    /\ it' = [it EXCEPT !.pc = "orthonormalize"]
    /\ UNCHANGED <<restIter, wfs>>

\* lines 134-137
IterateOrthonormalizeFirst ==
    /\ it.pc = "orthonormalize"
    /\ IF ~wfs.orthonormalized
       THEN /\ wfs' = orthonormalize(wfs)
            /\ it' = [it EXCEPT !.pc = "loop", !.n_first = @ + 1]
       ELSE /\ UNCHANGED wfs
            /\ it' = [it EXCEPT !.pc = "loop"]
    /\ UNCHANGED <<restIter, es>>

\* lines 138-139: one iterate_one_k_point, which updates the wave functions
\* of the k-point and returns its error, or raises
IterateOneKPoint ==
    /\ it.pc = "loop"
    /\ it.k < wfs.nkpt
    /\ \/ \E e \in 0..MaxError, o \in BOOLEAN :
             /\ wfs' = [wfs EXCEPT !.ortho[it.k] = o]
             /\ it' = [it EXCEPT !.k = @ + 1, !.error = @ + e]
       \/ /\ it' = [it EXCEPT !.pc = "raised"]
          /\ UNCHANGED wfs
    /\ UNCHANGED <<restIter, es>>

\* a mutant of IterateOrthonormalizeFinal: the loop is left without
\* orthonormalizing
IterateOrthonormalizeFinal_dropped ==
    /\ it.pc = "loop"
    /\ it.k = wfs.nkpt
    /\ it' = [it EXCEPT !.pc = "reduce", !.n_final = @ + 1]
    /\ UNCHANGED <<restIter, es, wfs>>

\* line 141, after the loop
IterateOrthonormalizeFinal ==
    /\ it.pc = "loop"
    /\ it.k = wfs.nkpt
    /\ wfs' = orthonormalize(wfs)
    /\ it' = [it EXCEPT !.pc = "reduce", !.n_final = @ + 1]
    /\ UNCHANGED <<restIter, es>>

\* line 143: the sums over the k-point and the band communicator add the
\* other workers' errors
IterateReduce ==
    /\ it.pc = "reduce"
    /\ \E others \in 0..MaxError :
          es' = [es EXCEPT !.error = it.error + others]
    /\ it' = [it EXCEPT !.pc = "returned"]
    /\ UNCHANGED <<restIter, wfs>>

\* between two calls new wave functions may be set up: the flag is reset
WfsReset ==
    /\ it.pc \in {"new", "returned"}
    /\ wfs.orthonormalized
    /\ \E o \in [DOMAIN wfs.ortho -> BOOLEAN] :
          wfs' = [wfs EXCEPT !.orthonormalized = FALSE, !.ortho = o]
    /\ it' = [it EXCEPT !.pc = "new"]
    /\ UNCHANGED <<restIter, es>>

InitIter ==
    /\ es = [initialized |-> FALSE, allocated |-> FALSE, error |-> -1,
             mynbands |-> 0]
    /\ \E nkpt \in 0..MaxKpts, flag \in BOOLEAN, mynbands \in 1..MaxBands :
          \E o \in [0..(nkpt - 1) -> BOOLEAN],
             e \in [0..(nkpt - 1) -> EpsChoices(mynbands)] :
             /\ flag => \A k \in 0..(nkpt - 1) : o[k]
             /\ wfs = [nkpt |-> nkpt, orthonormalized |-> flag, ortho |-> o,
                       mynbands |-> mynbands, eps_n |-> e, eps_n_before |-> e]
    /\ it = [pc |-> "new", calls |-> 0, k |-> 0, error |-> 0,
             entry_flag |-> FALSE, n_first |-> 0, n_final |-> 0]
    /\ GDIdle
    /\ CommIdle
    /\ BoxesIdle
    /\ DiagIdle
    /\ PairIdle
    /\ IntIdle
    /\ ProjIdle
    /\ UpdIdle
    /\ SubIdle
    /\ ConvIdle
    /\ NBIdle
    /\ CRIdle
    /\ RadIdle
    /\ RotIdle
    /\ PsIdle
    /\ KeepIdle

NextIter ==
    \/ IterateCall
    \/ IterateInitialize
    \/ IterateAllocate
    \/ IterateOrthonormalizeFirst
    \/ IterateOneKPoint
    \/ IterateOrthonormalizeFinal
    \/ IterateReduce
    \/ WfsReset

SpecIter == InitIter /\ [][NextIter]_vars

(***************************************************************************)
(* C6: when the k-point loop of iterate starts the wave functions are      *)
(* orthonormal, wfs.orthonormalize() having been called first exactly when *)
(* the flag was false; it is called once more after the last               *)
(* iterate_one_k_point and before the error reduction, so the wave         *)
(* functions are orthonormal after every call that returns.                *)
(***************************************************************************)
C6_OrthonormalAroundIterate ==
    /\ it.pc \in {"loop", "reduce", "returned", "raised"} =>
          it.n_first = (IF it.entry_flag THEN 0 ELSE 1)
    /\ it.pc = "loop" =>
          /\ wfs.orthonormalized
          /\ it.n_final = 0
          /\ it.k = 0 => Orthonormal
    /\ it.pc \in {"reduce", "returned"} =>
          /\ it.n_final = 1
          /\ it.k = wfs.nkpt
          /\ Orthonormal

C6_Witness ==
    /\ it.pc = "returned" /\ it.calls = 2 /\ wfs.nkpt = 2
    /\ it.n_first = 1 /\ it.n_final = 1 /\ es.error > 0

(***************************************************************************)
(* PairOverlap: the index table ni_a and the blocks of a pair matrix.  A   *)
(* matrix is a record of its shape and its entries, indexed from 0.        *)
(***************************************************************************)
MaxAtoms == 2       \* atoms
MaxNi == 2          \* projectors of an atom, 0..MaxNi
MaxAssigns == 2     \* assign calls on one matrix

RECURSIVE sum_to(_, _)
sum_to(ni, a) == IF a = 0 THEN 0 ELSE sum_to(ni, a - 1) + ni[a - 1]

\* line 18: np.cumsum([0] + [setup.ni for setup in self.setups])
cumsum_ni(ni, natoms) == [a \in 0..natoms |-> sum_to(ni, a)]

\* lines 20-21
len_self == po.ni_a[po.natoms]

\* the index pairs of an array of shape (rows, cols)
Pairs(rows, cols) == (0..(rows - 1)) \X (0..(cols - 1))

\* X[r0:r1, c0:c1]
slice2(X, r0, r1, c0, c1) ==
    [shape |-> <<r1 - r0, c1 - c0>>,
     v |-> [ij \in Pairs(r1 - r0, c1 - c0) |->
               X.v[<<r0 + ij[1], c0 + ij[2]>>]]]

\* a mutant of set_slice2: the entries outside the slice are zeroed
set_slice2_rest_zeroed(X, r0, r1, c0, c1, dX) ==
    [X EXCEPT !.v = [ij \in DOMAIN @ |->
        IF ij[1] \in Range(r0, r1) /\ ij[2] \in Range(c0, c1)
        THEN dX.v[<<ij[1] - r0, ij[2] - c0>>]
        ELSE 0]]

\* X[r0:r1, c0:c1] = dX
set_slice2(X, r0, r1, c0, c1, dX) ==
    [X EXCEPT !.v = [ij \in DOMAIN @ |->
        IF ij[1] \in Range(r0, r1) /\ ij[2] \in Range(c0, c1)
        THEN dX.v[<<ij[1] - r0, ij[2] - c0>>]
        ELSE @[ij]]]

\* lines 23-25
assign_atomic_pair_matrix(X, a1, a2, dX_ii) ==
    set_slice2(X, po.ni_a[a1], po.ni_a[a1 + 1],
                  po.ni_a[a2], po.ni_a[a2 + 1], dX_ii)

\* a mutant of extract_atomic_pair_matrix: the block of the pair (a2, a1)
extract_swapped(X, a1, a2) ==
    slice2(X, po.ni_a[a2], po.ni_a[a2 + 1], po.ni_a[a1], po.ni_a[a1 + 1])

\* lines 27-29
extract_atomic_pair_matrix(X, a1, a2) ==
    slice2(X, po.ni_a[a1], po.ni_a[a1 + 1], po.ni_a[a2], po.ni_a[a2 + 1])

\* the matrices and blocks tried: constant ones and ones whose entries
\* are all different
MChoices(n) ==
    {[shape |-> <<n, n>>, v |-> [ij \in Pairs(n, n) |-> 0]],
     [shape |-> <<n, n>>, v |-> [ij \in Pairs(n, n) |-> 1 + ij[1] * n + ij[2]]]}

BChoices(rows, cols) ==
    {[shape |-> <<rows, cols>>, v |-> [ij \in Pairs(rows, cols) |-> 7]],
     [shape |-> <<rows, cols>>,
      v |-> [ij \in Pairs(rows, cols) |-> -(1 + ij[1] * cols + ij[2])]]}

Atoms == 0..(po.natoms - 1)

Assign ==
    /\ px.pc \in {"new", "extracted"}
    /\ px.assigns < MaxAssigns
    /\ \E a1 \in Atoms, a2 \in Atoms :
          \E dX_ii \in BChoices(po.ni[a1], po.ni[a2]) :
             /\ X_aa' = assign_atomic_pair_matrix(X_aa, a1, a2, dX_ii)
             /\ px' = [pc |-> "assigned", assigns |-> px.assigns + 1,
                       a1 |-> a1, a2 |-> a2, dX_ii |-> dX_ii,
                       before |-> X_aa, result |-> <<>>]
    /\ UNCHANGED <<restPair, po>>

Extract ==
    /\ px.pc = "assigned"
    /\ px' = [px EXCEPT !.pc = "extracted",
                 !.result = extract_atomic_pair_matrix(X_aa, px.a1, px.a2)]
    /\ UNCHANGED <<restPair, po, X_aa>>

InitPair ==
    /\ \E natoms \in 1..MaxAtoms :
          \E ni \in [0..(natoms - 1) -> 0..MaxNi] :
             /\ po = [natoms |-> natoms, ni |-> ni,
                      ni_a |-> cumsum_ni(ni, natoms)]
             /\ X_aa \in MChoices(sum_to(ni, natoms))
    /\ px = [pc |-> "new", assigns |-> 0, a1 |-> 0, a2 |-> 0,
             dX_ii |-> <<>>, before |-> <<>>, result |-> <<>>]
    /\ GDIdle
    /\ CommIdle
    /\ BoxesIdle
    /\ DiagIdle
    /\ IterIdle
    /\ IntIdle
    /\ ProjIdle
    /\ UpdIdle
    /\ SubIdle
    /\ ConvIdle
    /\ NBIdle
    /\ CRIdle
    /\ RadIdle
    /\ RotIdle
    /\ PsIdle
    /\ KeepIdle

NextPair == Assign \/ Extract

SpecPair == InitPair /\ [][NextPair]_vars

(***************************************************************************)
(* C7: extract_atomic_pair_matrix(M, a1, a2) evaluated after               *)
(* assign_atomic_pair_matrix(M, a1, a2, B) equals B, for all atoms a1, a2, *)
(* atoms with ni = 0 included, and every block B of shape                  *)
(* (ni[a1], ni[a2]).                                                       *)
(***************************************************************************)
C7_AssignExtractInverse ==
    px.pc = "extracted" =>
        /\ px.result = px.dX_ii
        /\ px.result.shape = <<po.ni[px.a1], po.ni[px.a2]>>

C7_Witness ==
    /\ px.pc = "extracted" /\ px.assigns = 2 /\ px.a1 # px.a2
    /\ po.ni[px.a1] = 0 /\ po.ni[px.a2] = 2
    /\ px.result.shape = <<0, 2>>

(***************************************************************************)
(* GridDescriptor.integrate, called with the same arguments by every rank  *)
(* of gd.comm.  A local block is the sequence of its grid values; an array *)
(* with one extra axis is a sequence of such blocks.  Results are          *)
(* sequences: one number for a 3-dimensional array, one number per         *)
(* component otherwise.  asserts is FALSE when Python runs with -O.        *)
(***************************************************************************)
MaxIntRanks == 2    \* ranks of gd.comm

\* the local blocks tried
AChoices == {<<0, 1>>, <<1, 1>>, <<2, 0>>}
DvChoices == {1, 3}

\* an array with one extra axis made of a block
stack(a) == <<a, [g \in DOMAIN a |-> a[g] + g]>>

RECURSIVE SeqSum(_)
SeqSum(q) == IF q = <<>> THEN 0 ELSE q[1] + SeqSum(Tail(q))

\* a mutant of vdot: the second array is ignored
vdot_first_only(a, b) == SeqSum(a)

\* np.vdot(a, b) for real arrays
vdot(a, b) == SeqSum([g \in DOMAIN a |-> a[g] * b[g]])

IntRanks == DOMAIN ipc

RECURSIVE comm_sum(_, _)
\* comm.sum: component x summed over the ranks 0..r
comm_sum(x, r) ==
    IF r < 0 THEN 0 ELSE contrib[r][x] + comm_sum(x, r - 1)

AssertionError == [kind |-> "AssertionError", v |-> <<>>]
Value(v) == [kind |-> "value", v |-> v]

\* lines 204-213 up to the reduction: the asserts, the local sums, and the
\* return of the inner product
IntegrateCall(r) ==
    /\ ipc[r] = "call"
    /\ LET a_xg == icfg.a_xg[r]
           b_is_None == ~icfg.has_b
           failed == /\ icfg.asserts
                     /\ IF icfg.ndim = 3
                        THEN IF b_is_None THEN ~icfg.global_integral
                             ELSE icfg.global_integral
                        ELSE ~(b_is_None /\ icfg.global_integral)
       IN  IF failed
           THEN /\ ipc' = [ipc EXCEPT ![r] = "raised"]
                /\ iret' = [iret EXCEPT ![r] = AssertionError]
                /\ UNCHANGED contrib
           ELSE IF icfg.ndim = 3 /\ ~b_is_None
           THEN /\ ipc' = [ipc EXCEPT ![r] = "returned"]
                /\ iret' = [iret EXCEPT ![r] =
                               Value(<<vdot(a_xg, icfg.b_xg[r]) * icfg.dv>>)]
                /\ UNCHANGED contrib
           ELSE /\ ipc' = [ipc EXCEPT ![r] = "comm.sum"]
                /\ contrib' = [contrib EXCEPT ![r] =
                                  IF icfg.ndim = 3 THEN <<SeqSum(a_xg)>>
                                  ELSE [x \in DOMAIN a_xg |->
                                           SeqSum(a_xg[x])]]
                /\ UNCHANGED iret
    /\ UNCHANGED <<restInt, icfg>>

\* lines 208 and 214-215: the reduction completes when every rank has
\* joined it; the sum is scaled by dv and returned
IntegrateSum(r) ==
    /\ ipc[r] = "comm.sum"
    /\ \A q \in IntRanks : contrib[q] # <<>>
    /\ iret' = [iret EXCEPT ![r] =
                   Value([x \in DOMAIN contrib[r] |->
                             comm_sum(x, icfg.size - 1) * icfg.dv])]
    /\ ipc' = [ipc EXCEPT ![r] = "returned"]
    /\ UNCHANGED <<restInt, icfg, contrib>>

InitInt ==
    /\ \E n \in 1..MaxIntRanks, ndim \in {3, 4}, has_b \in BOOLEAN,
          global_integral \in BOOLEAN, asserts \in BOOLEAN,
          dv \in DvChoices :
          \E a \in [0..(n - 1) -> AChoices],
             b \in IF has_b THEN AChoices ELSE {<<>>} :
             /\ icfg = [size |-> n, ndim |-> ndim, has_b |-> has_b,
                        global_integral |-> global_integral,
                        asserts |-> asserts, dv |-> dv,
                        a_g |-> a,
                        a_xg |-> [r \in 0..(n - 1) |->
                                    IF ndim = 3 THEN a[r] ELSE stack(a[r])],
                        b_xg |-> [r \in 0..(n - 1) |-> b]]
             /\ ipc = [r \in 0..(n - 1) |-> "call"]
             /\ contrib = [r \in 0..(n - 1) |-> <<>>]
             /\ iret = [r \in 0..(n - 1) |-> [kind |-> "None", v |-> <<>>]]
    /\ GDIdle
    /\ CommIdle
    /\ BoxesIdle
    /\ DiagIdle
    /\ IterIdle
    /\ PairIdle
    /\ ProjIdle
    /\ UpdIdle
    /\ SubIdle
    /\ ConvIdle
    /\ NBIdle
    /\ CRIdle
    /\ RadIdle
    /\ RotIdle
    /\ PsIdle
    /\ KeepIdle

NextInt ==
    \/ \E r \in IntRanks : IntegrateCall(r)
    \/ \E r \in IntRanks : IntegrateSum(r)

SpecInt == InitInt /\ [][NextInt]_vars

\* dv * sum(a) of the block of rank r, per component
LocalIntegral(r) ==
    IF icfg.ndim = 3 THEN <<SeqSum(icfg.a_xg[r]) * icfg.dv>>
    ELSE [x \in DOMAIN icfg.a_xg[r] |-> SeqSum(icfg.a_xg[r][x]) * icfg.dv]

(***************************************************************************)
(* C10: integrate(a) with b_xg omitted and global_integral false returns   *)
(* the local dv * sum(a) of the calling rank's block, takes part in no     *)
(* reduction and does not fail, for 3-dimensional and higher-dimensional   *)
(* arrays.                                                                 *)
(***************************************************************************)
C10_LocalIntegrateReturns ==
    \A r \in IntRanks :
        (~icfg.has_b /\ ~icfg.global_integral /\ ipc[r] # "call") =>
            /\ ipc[r] = "returned"
            /\ iret[r] = Value(LocalIntegral(r))
            /\ contrib[r] = <<>>

\* dv * vdot(a, b) of the block of rank r
LocalInnerProduct(r) ==
    <<SeqSum([g \in DOMAIN icfg.a_g[r] |->
                 icfg.a_g[r][g] * icfg.b_xg[r][g]]) * icfg.dv>>

MaxProjRanks == 2   \* ranks of the domain communicator
MaxProjAtoms == 2   \* atoms

\* the numbers of projectors an atom may have
NiChoices == {0, 1, 2}

Modes == {"apply", "apply_inverse", "apply_inverse extrapolate",
          "apply_to_atomic_matrices"}

RECURSIVE SumTo(_, _)
\* f[0] + ... + f[n-1]
SumTo(f, n) == IF n <= 0 THEN 0 ELSE f[n - 1] + SumTo(f, n - 1)

\* np.dot of two square matrices
dot(A, B) ==
    LET n == A.shape[1]
    IN  [shape |-> A.shape,
         v |-> [ij \in DOMAIN A.v |->
                  SumTo([k \in 0..(n - 1) |->
                           A.v[<<ij[1], k>>] * B.v[<<k, ij[2]>>]], n)]]

\* lines 262-274
get_rotated_coefficients(X) == dot(pp.dB_aa, X)

np_zeros(n) == [i \in 0..(n - 1) |-> 0]

\* np.dot(P_xi, M_ii.T) with M_ii the block (a1, a2) of M
dot_P_MT(P_xi, M, a1, a2) ==
    LET M_ii == extract_atomic_pair_matrix(M, a1, a2)
    IN  [i \in 0..(po.ni[a1] - 1) |->
            SumTo([j \in 0..(po.ni[a2] - 1) |->
                      P_xi[j] * M_ii.v[<<i, j>>]], po.ni[a2])]

\* the atoms of wfs.pt.dict() on rank r
my_atom_indices(r) == {a \in Atoms : pp.owner[a] = r}

RECURSIVE AddOwned(_, _, _, _, _)
\* lines 297-299, 362-365, 393-396, 410-413: Q_xi += dot(P_xi, M_ii.T) for
\* the atoms a2 below n that rank r owns
AddOwned(Q_xi, r, M, a1, n) ==
    IF n = 0 THEN Q_xi
    ELSE LET Q == AddOwned(Q_xi, r, M, a1, n - 1)
             a2 == n - 1
         IN  IF a2 \in my_atom_indices(r)
             THEN [i \in DOMAIN Q |->
                      Q[i] + dot_P_MT(pp.P_axi[a2], M, a1, a2)[i]]
             ELSE Q

\* a mutant of Q_start: a rank that does not own a1 starts from P[a1] too
Q_start_copied(r, a1, extrapolate) ==
    IF extrapolate THEN pp.P_axi[a1]
    ELSE IF a1 \in my_atom_indices(r) THEN wk[r].Q_axi[a1]
    ELSE np_zeros(po.ni[a1])

\* lines 292-296, 356-361, 388-392, 404-409: the buffer a rank starts from
Q_start(r, a1, extrapolate) ==
    IF a1 \in my_atom_indices(r)
    THEN IF extrapolate THEN pp.P_axi[a1] ELSE wk[r].Q_axi[a1]
    ELSE np_zeros(po.ni[a1])

\* the matrix and the mode of loop number loop of a call
LoopMatrix(r, loop) ==
    CASE pp.mode = "apply" -> pp.xO_aa
      [] pp.mode = "apply_to_atomic_matrices" -> wk[r].dM_aa
      [] OTHER -> IF loop = 1 THEN pp.dC_aa ELSE pp.xC_aa

LoopExtrapolates(loop) ==
    pp.mode = "apply" \/ (pp.mode = "apply_inverse extrapolate" /\ loop = 2)

Loops == IF pp.mode = "apply_inverse extrapolate" THEN 2 ELSE 1

ProjRanks == DOMAIN wk

\* the k-th reduction is complete for everybody who joined it
AllJoined(k) == \A q \in ProjRanks : Len(hist[q]) >= k

\* the elementwise sum over the ranks of their k-th contribution
reduced(r, k) ==
    [x \in DOMAIN hist[r][k].buf |->
        SumTo([q \in ProjRanks |-> hist[q][k].buf[x]], pp.size)]

RECURSIVE AssembleBlocks(_, _, _)
\* lines 283-286: the blocks dI_ii of the atoms below n that are in S go on
\* the diagonal of X
AssembleBlocks(X, S, n) ==
    IF n = 0 THEN X
    ELSE LET Y == AssembleBlocks(X, S, n - 1)
         IN  IF (n - 1) \in S
             THEN assign_atomic_pair_matrix(Y, n - 1, n - 1, pp.dI_ii[n - 1])
             ELSE Y

zeros_aa == [shape |-> <<len_self, len_self>>,
             v |-> [ij \in Pairs(len_self, len_self) |-> 0]]

\* lines 280-287: dI_aa is assembled from the own atoms and reduced
ProjAssemble(r) ==
    /\ wk[r].pc = "assemble"
    /\ hist' = [hist EXCEPT ![r] = Append(@,
                   [a1 |-> -1,
                    buf |-> AssembleBlocks(zeros_aa, my_atom_indices(r),
                                           po.natoms).v])]
    /\ wk' = [wk EXCEPT ![r].pc = "dI_aa sum"]
    /\ UNCHANGED <<restProj, pp>>

\* lines 287-290: the reduction of dI_aa completes, dM_aa is computed
ProjRotate(r) ==
    /\ wk[r].pc = "dI_aa sum"
    /\ AllJoined(Len(hist[r]))
    /\ wk' = [wk EXCEPT ![r].pc = "loop",
                 ![r].dM_aa = get_rotated_coefficients(
                     [shape |-> <<len_self, len_self>>,
                      v |-> reduced(r, Len(hist[r]))])]
    /\ UNCHANGED <<restProj, pp, hist>>

\* one pass of a loop over a1 up to the call of domain_comm.sum(Q_xi)
ProjAccumulate(r) ==
    /\ wk[r].pc = "loop"
    /\ LET a1 == wk[r].a1
           Q_xi == AddOwned(Q_start(r, a1, LoopExtrapolates(wk[r].loop)), r,
                            LoopMatrix(r, wk[r].loop), a1, po.natoms)
       IN  /\ hist' = [hist EXCEPT ![r] = Append(@, [a1 |-> a1, buf |-> Q_xi])]
           /\ wk' = [wk EXCEPT ![r].pc = "sum"]
    /\ UNCHANGED <<restProj, pp>>

\* domain_comm.sum(Q_xi) completes in place; the loop goes on, or the next
\* loop starts after wfs.pt.add, or the call returns
ProjSum(r) ==
    /\ wk[r].pc = "sum"
    /\ AllJoined(Len(hist[r]))
    /\ LET a1 == wk[r].a1
           Q_axi == IF a1 \in my_atom_indices(r)
                    THEN [wk[r].Q_axi EXCEPT ![a1] = reduced(r, Len(hist[r]))]
                    ELSE wk[r].Q_axi
       IN  wk' = [wk EXCEPT ![r] =
              IF a1 + 1 < po.natoms
              THEN [@ EXCEPT !.pc = "loop", !.a1 = a1 + 1, !.Q_axi = Q_axi]
              ELSE IF @.loop < Loops
              THEN [@ EXCEPT !.pc = "loop", !.a1 = 0, !.loop = @ + 1,
                             !.Q_axi = Q_axi, !.added = Q_axi]
              ELSE [@ EXCEPT !.pc = "returned", !.Q_axi = Q_axi]]
    /\ UNCHANGED <<restProj, pp, hist>>

InitProj ==
    /\ \E nranks \in 1..MaxProjRanks, natoms \in 1..MaxProjAtoms, mode \in Modes :
          \E ni \in [0..(natoms - 1) -> NiChoices],
             owner \in [0..(natoms - 1) -> 0..(nranks - 1)] :
             LET n == sum_to(ni, natoms)
                 coded(k, l, m) == [shape |-> <<n, n>>,
                     v |-> [ij \in Pairs(n, n) |-> k + l * ij[1] + m * ij[2]]]
                 P_axi == [a \in 0..(natoms - 1) |->
                              [j \in 0..(ni[a] - 1) |-> 1 + a + 2 * j]]
             IN  /\ po = [natoms |-> natoms, ni |-> ni,
                          ni_a |-> cumsum_ni(ni, natoms)]
                 /\ pp = [size |-> nranks, mode |-> mode, owner |-> owner,
                          P_axi |-> P_axi,
                          dB_aa |-> coded(1, 1, 2),
                          xO_aa |-> coded(1, n, 1),
                          dC_aa |-> coded(-1, 1, -n),
                          xC_aa |-> coded(2, 3, 1),
                          dI_ii |-> [a \in 0..(natoms - 1) |->
                             [shape |-> <<ni[a], ni[a]>>,
                              v |-> [ij \in Pairs(ni[a], ni[a]) |->
                                        1 + a + ij[1] + ij[2]]]]]
                 /\ wk = [r \in 0..(nranks - 1) |->
                            [pc |-> IF mode = "apply_to_atomic_matrices"
                                    THEN "assemble" ELSE "loop",
                             loop |-> 1, a1 |-> 0,
                             Q_axi |-> [a \in {b \in 0..(natoms - 1) :
                                                 owner[b] = r} |->
                                 IF mode = "apply"
                                 THEN [j \in 0..(ni[a] - 1) |-> 3 * P_axi[a][j]]
                                 ELSE [j \in 0..(ni[a] - 1) |-> 0]],
                             dM_aa |-> <<>>, added |-> <<>>]]
                 /\ hist = [r \in 0..(nranks - 1) |-> <<>>]
    /\ X_aa = <<>>
    /\ px = <<>>
    /\ GDIdle
    /\ CommIdle
    /\ BoxesIdle
    /\ DiagIdle
    /\ IterIdle
    /\ IntIdle
    /\ UpdIdle
    /\ SubIdle
    /\ ConvIdle
    /\ NBIdle
    /\ CRIdle
    /\ RadIdle
    /\ RotIdle
    /\ PsIdle
    /\ KeepIdle

NextProj ==
    \/ \E r \in ProjRanks : ProjAssemble(r)
    \/ \E r \in ProjRanks : ProjRotate(r)
    \/ \E r \in ProjRanks : ProjAccumulate(r)
    \/ \E r \in ProjRanks : ProjSum(r)

SpecProj == InitProj /\ [][NextProj]_vars

\* base[i] + the sum over all atoms a2 of dot(P[a2], M(a1, a2).T)[i]
ExpectedQ(M, extrapolate, a1) ==
    [i \in 0..(po.ni[a1] - 1) |->
        (IF extrapolate THEN pp.P_axi[a1][i] ELSE 0)
        + SumTo([a2 \in Atoms |-> dot_P_MT(pp.P_axi[a2], M, a1, a2)[i]],
                po.natoms)]

\* dB . dI with dI the block-diagonal matrix of all the atoms' dI_ii
Expected_dM == dot(pp.dB_aa, AssembleBlocks(zeros_aa, Atoms, po.natoms))

\* the sums before the loops of a call
SumsBefore == IF pp.mode = "apply_to_atomic_matrices" THEN 1 ELSE 0

(***************************************************************************)
(* C12 as stated: in apply (extrapolating), apply_inverse and              *)
(* apply_to_atomic_matrices a rank performs exactly one domain_comm.sum    *)
(* per atom and the owner's Q[a1] ends as (P[a1] when extrapolating, else  *)
(* 0) + sum over a2 of P[a2] . M(a1, a2)^T with M = xO, dC and xC          *)
(* respectively.                                                           *)
(***************************************************************************)
C12_OneSumPerAtom_Respectively ==
    \A r \in ProjRanks :
        wk[r].pc = "returned" =>
            /\ Len(hist[r]) = po.natoms
            /\ \A a \in my_atom_indices(r) :
                  wk[r].Q_axi[a] =
                     CASE pp.mode = "apply" -> ExpectedQ(pp.xO_aa, TRUE, a)
                       [] pp.mode = "apply_inverse" ->
                             ExpectedQ(pp.dC_aa, FALSE, a)
                       [] pp.mode = "apply_inverse extrapolate" ->
                             ExpectedQ(pp.xC_aa, TRUE, a)
                       [] OTHER -> ExpectedQ(pp.xC_aa, FALSE, a)

(***************************************************************************)
(* C12: in every loop over a1 each rank performs exactly one               *)
(* domain_comm.sum per atom, in ascending atom order, owner or not; the    *)
(* owner's Q[a1] after the loop is P[a1] + sum P[a2] . xO^T (apply,        *)
(* extrapolating), sum P[a2] . dC^T (apply_inverse, first loop, the value  *)
(* given to wfs.pt.add), P[a1] + sum P[a2] . xC^T (apply_inverse, second   *)
(* loop when extrapolating) and sum P[a2] . dM^T with dM = dB . dI         *)
(* (apply_to_atomic_matrices, after one more reduction, of dI_aa).         *)
(***************************************************************************)
C12_ReducedProjections ==
    \A r \in ProjRanks :
        /\ \A k \in 1..Len(hist[r]) :
              hist[r][k].a1 = IF k <= SumsBefore THEN -1
                              ELSE (k - SumsBefore - 1) % po.natoms
        /\ wk[r].pc = "returned" =>
              /\ Len(hist[r]) = SumsBefore + Loops * po.natoms
              /\ \A a \in my_atom_indices(r) :
                    /\ wk[r].Q_axi[a] =
                          CASE pp.mode = "apply" ->
                                  ExpectedQ(pp.xO_aa, TRUE, a)
                            [] pp.mode = "apply_inverse" ->
                                  ExpectedQ(pp.dC_aa, FALSE, a)
                            [] pp.mode = "apply_inverse extrapolate" ->
                                  ExpectedQ(pp.xC_aa, TRUE, a)
                            [] OTHER -> ExpectedQ(Expected_dM, FALSE, a)
                    /\ pp.mode = "apply_inverse extrapolate" =>
                          wk[r].added[a] = ExpectedQ(pp.dC_aa, FALSE, a)

C12_Witness ==
    /\ pp.size = 2 /\ po.natoms = 2 /\ pp.owner[0] = 1 /\ pp.owner[1] = 0
    /\ po.ni[0] = 2 /\ po.ni[1] = 1
    /\ pp.mode = "apply_inverse extrapolate"
    /\ \A r \in ProjRanks : wk[r].pc = "returned"

(***************************************************************************)
(* ProjectorPairOverlap.update.  The object's matrices are the fields of   *)
(* pp.  A real matrix that comes out of the linear solve is kept exactly,  *)
(* as integer numerators v over one denominator den.                       *)
(***************************************************************************)
MaxUpdates == 2     \* update calls on one object, the constructor's included

\* the setups tried: the numbers of projectors of the atoms
SetupChoices == {<<1>>, <<2>>, <<1, 1>>, <<0, 2>>, <<2, 1>>}

\* the overlaps calculate_overlaps may find: diagonal d, off-diagonal
\* o * (1 + i + j)
DBChoices(n) ==
    {[shape |-> <<n, n>>,
      v |-> [ij \in Pairs(n, n) |->
                IF ij[1] = ij[2] THEN c[1] ELSE c[2] * (1 + ij[1] + ij[2])]] :
        c \in {<<1, 0>>, <<1, 1>>, <<2, 1>>, <<-1, 0>>}}

\* setup.O_ii of atom a
O_ii(a) ==
    [shape |-> <<po.ni[a], po.ni[a]>>,
     v |-> [ij \in Pairs(po.ni[a], po.ni[a]) |->
               IF ij[1] = ij[2] THEN 1 + a ELSE 1]]

transpose(A) ==
    [shape |-> <<A.shape[2], A.shape[1]>>,
     v |-> [ij \in Pairs(A.shape[2], A.shape[1]) |-> A.v[<<ij[2], ij[1]>>]]]

np_eye(n) ==
    [shape |-> <<n, n>>,
     v |-> [ij \in Pairs(n, n) |-> IF ij[1] = ij[2] THEN 1 ELSE 0]]

plus(A, B) == [shape |-> A.shape, v |-> [ij \in DOMAIN A.v |-> A.v[ij] + B.v[ij]]]

scaled(k, A) == [shape |-> A.shape, v |-> [ij \in DOMAIN A.v |-> k * A.v[ij]]]

\* A without row i and column j
minor(A, i, j) ==
    LET n == A.shape[1] - 1
    IN  [shape |-> <<n, n>>,
         v |-> [rc \in Pairs(n, n) |->
                   A.v[<<IF rc[1] < i THEN rc[1] ELSE rc[1] + 1,
                         IF rc[2] < j THEN rc[2] ELSE rc[2] + 1>>]]]

sign(k) == IF k % 2 = 0 THEN 1 ELSE -1

RECURSIVE det(_)
det(A) ==
    LET n == A.shape[1]
    IN  IF n = 0 THEN 1
        ELSE SumTo([j \in 0..(n - 1) |->
                       sign(j) * A.v[<<0, j>>] * det(minor(A, 0, j))], n)

adjugate(A) ==
    [shape |-> A.shape,
     v |-> [ij \in DOMAIN A.v |->
               sign(ij[1] + ij[2]) * det(minor(A, ij[2], ij[1]))]]

\* np.linalg.solve(A, B): the X with A . X = B, for det(A) # 0
linalg_solve(A, B) ==
    [shape |-> B.shape, v |-> dot(adjugate(A), B).v, den |-> det(A)]

\* a mutant of solve_dC: the system is solved without the transposes
solve_dC_untransposed(lhs_aa, rhs_aa) == linalg_solve(lhs_aa, rhs_aa)

\* line 254: np.linalg.solve(lhs_aa.T, rhs_aa.T).T
solve_dC(lhs_aa, rhs_aa) ==
    LET X == linalg_solve(transpose(lhs_aa), transpose(rhs_aa))
    IN  [shape |-> transpose(X).shape, v |-> transpose(X).v, den |-> X.den]

RECURSIVE assign_O_ii(_, _)
\* lines 246-247: setup.O_ii of the atoms below n goes on the diagonal
assign_O_ii(X, n) ==
    IF n = 0 THEN X
    ELSE assign_atomic_pair_matrix(assign_O_ii(X, n - 1), n - 1, n - 1,
                                   O_ii(n - 1))

\* lines 245-247
dO_aa == assign_O_ii(zeros_aa, po.natoms)

\* update is called, by the constructor or after the atoms moved
UpdateCall ==
    /\ up.pc \in {"new", "returned"}
    /\ up.calls < MaxUpdates
    /\ up' = [up EXCEPT !.pc = "calculate_overlaps", !.calls = @ + 1]
    /\ UNCHANGED <<restUpd, pp>>

\* line 242: self.dB_aa = self.calculate_overlaps(...), which may raise
UpdateOverlaps ==
    /\ up.pc = "calculate_overlaps"
    /\ \/ \E dB \in DBChoices(len_self) :
             /\ pp' = [pp EXCEPT !.dB_aa = dB, !.stamp.dB_aa = up.calls]
             /\ up' = [up EXCEPT !.pc = "rotate dO_aa"]
       \/ /\ up' = [up EXCEPT !.pc = "raised"]
          /\ UNCHANGED pp
    /\ UNCHANGED restUpd

\* lines 245-250: self.xO_aa = self.get_rotated_coefficients(dO_aa)
UpdateRotateOverlap ==
    /\ up.pc = "rotate dO_aa"
    /\ pp' = [pp EXCEPT !.xO_aa = get_rotated_coefficients(dO_aa),
                        !.stamp.xO_aa = up.calls]
    /\ up' = [up EXCEPT !.pc = "solve"]
    /\ UNCHANGED restUpd

\* lines 252-255: the solve, which raises LinAlgError on a singular matrix
UpdateSolve ==
    /\ up.pc = "solve"
    /\ LET lhs_aa == plus(np_eye(len_self), pp.xO_aa)
           rhs_aa == scaled(-1, dO_aa)
       IN  IF det(transpose(lhs_aa)) = 0
           THEN /\ up' = [up EXCEPT !.pc = "raised"]
                /\ UNCHANGED pp
           ELSE /\ pp' = [pp EXCEPT !.dC_aa = solve_dC(lhs_aa, rhs_aa),
                                    !.stamp.dC_aa = up.calls]
                /\ up' = [up EXCEPT !.pc = "rotate dC_aa"]
    /\ UNCHANGED restUpd

\* lines 257-260: self.xC_aa = self.get_rotated_coefficients(self.dC_aa)
UpdateRotateInverse ==
    /\ up.pc = "rotate dC_aa"
    /\ pp' = [pp EXCEPT !.xC_aa = [shape |-> pp.dC_aa.shape,
                           v |-> get_rotated_coefficients(pp.dC_aa).v,
                           den |-> pp.dC_aa.den],
                        !.stamp.xC_aa = up.calls]
    /\ up' = [up EXCEPT !.pc = "returned"]
    /\ UNCHANGED restUpd

InitUpd ==
    /\ \E ni \in SetupChoices :
          po = [natoms |-> Len(ni), ni |-> [a \in 0..(Len(ni) - 1) |-> ni[a + 1]],
                ni_a |-> cumsum_ni([a \in 0..(Len(ni) - 1) |-> ni[a + 1]],
                                   Len(ni))]
    /\ pp = [dB_aa |-> <<>>, xO_aa |-> <<>>, dC_aa |-> <<>>, xC_aa |-> <<>>,
             stamp |-> [dB_aa |-> 0, xO_aa |-> 0, dC_aa |-> 0, xC_aa |-> 0]]
    /\ up = [pc |-> "new", calls |-> 0]
    /\ X_aa = <<>>
    /\ px = <<>>
    /\ wk = <<>>
    /\ hist = <<>>
    /\ GDIdle
    /\ CommIdle
    /\ BoxesIdle
    /\ DiagIdle
    /\ IterIdle
    /\ IntIdle
    /\ SubIdle
    /\ ConvIdle
    /\ NBIdle
    /\ CRIdle
    /\ RadIdle
    /\ RotIdle
    /\ PsIdle
    /\ KeepIdle

NextUpd ==
    \/ UpdateCall
    \/ UpdateOverlaps
    \/ UpdateRotateOverlap
    \/ UpdateSolve
    \/ UpdateRotateInverse

SpecUpd == InitUpd /\ [][NextUpd]_vars

(***************************************************************************)
(* C13: after every update call that returns, the constructor's included,  *)
(* xO = dB . dO, dC . (I + xO) = -dO and xC = dB . dC hold for the dB of   *)
(* that call, and every one of the four matrices was written by that call. *)
(***************************************************************************)
C13_UpdateConsistent ==
    up.pc = "returned" =>
        /\ pp.xO_aa = dot(pp.dB_aa, dO_aa)
        /\ pp.dC_aa.den # 0
        /\ dot(pp.dC_aa, plus(np_eye(len_self), pp.xO_aa)).v
              = scaled(-pp.dC_aa.den, dO_aa).v
        /\ pp.xC_aa.v = dot(pp.dB_aa, pp.dC_aa).v
        /\ pp.xC_aa.den = pp.dC_aa.den
        /\ \A m \in DOMAIN pp.stamp : pp.stamp[m] = up.calls

C13_Witness ==
    /\ up.pc = "returned" /\ up.calls = 2 /\ po.natoms = 2 /\ len_self = 3
    /\ pp.dB_aa.v[<<0, 1>>] # 0
    /\ pp.dC_aa.den = -53

(***************************************************************************)
(* C14: a worker whose dense solve returns a non-zero status raises        *)
(* RuntimeError('Failed to diagonalize: <info>') before it distributes     *)
(* eigenvalues or broadcasts anything, and _diagonalize, and with it the   *)
(* dense solve, is invoked exactly once per call.                          *)
(***************************************************************************)
C14_FailedToDiagonalize ==
    \A w \in Workers :
        dpc[w] # "_diagonalize" =>
            /\ dcall[w].tries = 1
            /\ dcall[w].solves = (IF w = root THEN 1 ELSE 0)
            /\ dcall[w].info # 0 <=> dpc[w] = "raised"
            /\ dpc[w] = "raised" =>
                  /\ dcall[w].solves = 1
                  /\ dcall[w].exc = RuntimeError(dcall[w].info)
                  /\ eps_n[w] = np_empty(dcfg.mynbands)
                  /\ band_msgs = {} /\ band_bcast = <<>>
                  /\ grid_bcast[w[2]] = <<>>

C14_Witness ==
    /\ dpc[root] = "raised" /\ dcall[root].info = -2
    /\ dcfg.gsize = 2 /\ dcfg.bsize = 2
    /\ \A w \in Workers \ {root} : dpc[w] # "_diagonalize"

(***************************************************************************)
(* Eigensolver.diagonalize of eigensolvers/__init__.py on one worker of    *)
(* the domain communicator.  The three grid arrays are the buffers "A",    *)
(* "B" and "C"; an array's value is the list of the operations that wrote  *)
(* it, and kpt.psit_nG, self.Htpsit_nG and self.work name buffers.         *)
(***************************************************************************)
MaxNuclei == 1      \* nuclei of the worker, 0..MaxNuclei

NoException == [type |-> "None", msg |-> "", args |-> <<>>]

\* a mutant of bands_differ: only a solver with fewer bands is refused
bands_differ_fewer(nbands, kpt_nbands) == nbands < kpt_nbands

\* line 86
bands_differ(nbands, kpt_nbands) == nbands # kpt_nbands

\* the arrays as they are before the call
FreshArrays ==
    [buf |-> [b \in {"A", "B", "C"} |-> <<>>],
     psit_nG |-> "A", Htpsit_nG |-> "B", work |-> "C",
     H_nn |-> <<>>, eps_n |-> <<>>, P_uni |-> <<>>]

\* line 84
SubStart ==
    /\ sd.pc = "start"
    /\ sd' = [sd EXCEPT !.pc = "check", !.timer = Append(@, "start")]
    /\ UNCHANGED restSub

\* lines 86-87
SubCheckBands ==
    /\ sd.pc = "check"
    /\ sd' = IF bands_differ(sd.nbands, sd.kpt_nbands)
             THEN [sd EXCEPT !.pc = "raised",
                      !.exc = [type |-> "RuntimeError",
                               msg |-> "Bands: %d != %d",
                               args |-> <<sd.nbands, sd.kpt_nbands>>]]
             ELSE [sd EXCEPT !.pc = "apply"]
    /\ UNCHANGED restSub

\* lines 89-96: the Hamiltonian is applied to psit_nG into Htpsit_nG
SubApplyHamiltonian ==
    /\ sd.pc = "apply"
    /\ sd' = [sd EXCEPT !.pc = "build",
                 !.applied = @ + 1,
                 !.a.buf[sd.a.Htpsit_nG] = <<"kin.apply", "+= psit * vt">>]
    /\ UNCHANGED restSub

\* lines 98-106: H_nn is zeroed and built
SubBuildH ==
    /\ sd.pc = "build"
    /\ sd' = [sd EXCEPT !.pc = "sum",
                 !.a.H_nn = <<"zero", "apply_non_local", "r2k">>
                            \o [k \in 1..sd.nnuclei |-> "+= P H P"]]
    /\ UNCHANGED restSub

\* lines 108-112: the reduction to the root, then the subspace mask
SubSum ==
    /\ sd.pc = "sum"
    /\ sd' = [sd EXCEPT !.pc = "lapack",
                 !.comm = Append(@, "sum H_nn"),
                 !.a.H_nn = IF sd.hybrid THEN @ \o <<"sum", "mask">>
                            ELSE Append(@, "sum")]
    /\ UNCHANGED restSub

\* lines 114-117: the root diagonalizes; a non-zero status raises
SubLapack ==
    /\ sd.pc = "lapack"
    /\ IF sd.is_root
       THEN \E info \in InfoChoices :
               sd' = IF info # 0
                     THEN [sd EXCEPT !.pc = "raised",
                              !.a.H_nn = Append(@, "diagonalize"),
                              !.a.eps_n = Append(@, "diagonalize"),
                              !.exc = [type |-> "RuntimeError",
                                       msg |-> "Very Bad!!", args |-> <<>>]]
                     ELSE [sd EXCEPT !.pc = "broadcast",
                              !.a.H_nn = Append(@, "diagonalize"),
                              !.a.eps_n = Append(@, "diagonalize")]
       ELSE sd' = [sd EXCEPT !.pc = "broadcast"]
    /\ UNCHANGED restSub

\* lines 119-120
SubBroadcast ==
    /\ sd.pc = "broadcast"
    /\ sd' = [sd EXCEPT !.pc = "rotate",
                 !.comm = @ \o <<"broadcast H_nn", "broadcast eps_n">>,
                 !.a.H_nn = IF sd.is_root THEN @ ELSE Append(@, "broadcast"),
                 !.a.eps_n = IF sd.is_root THEN @ ELSE Append(@, "broadcast")]
    /\ UNCHANGED restSub

\* lines 122-129: work = psit . H, psit = Htpsit . H, then the references
\* are switched
SubRotate ==
    /\ sd.pc = "rotate"
    /\ sd' = [sd EXCEPT !.pc = "rotate P",
                 !.a.buf[sd.a.work] = <<"gemm psit_nG">>,
                 !.a.buf[sd.a.psit_nG] = <<"gemm Htpsit_nG">>,
                 !.a.psit_nG = sd.a.work,
                 !.a.Htpsit_nG = sd.a.psit_nG,
                 !.a.work = sd.a.Htpsit_nG]
    /\ UNCHANGED restSub

\* lines 131-144: the projections are rotated, the timer is stopped
SubRotateP ==
    /\ sd.pc = "rotate P"
    /\ sd' = [sd EXCEPT !.pc = "returned",
                 !.a.P_uni = [k \in 1..sd.nnuclei |-> "gemm"],
                 !.timer = Append(@, "stop")]
    /\ UNCHANGED restSub

InitSub ==
    /\ \E nbands \in 1..MaxBands, kpt_nbands \in 1..MaxBands,
          is_root \in BOOLEAN, hybrid \in BOOLEAN, nnuclei \in 0..MaxNuclei :
          sd = [pc |-> "start", nbands |-> nbands, kpt_nbands |-> kpt_nbands,
                is_root |-> is_root, hybrid |-> hybrid, nnuclei |-> nnuclei,
                a |-> FreshArrays, comm |-> <<>>, applied |-> 0,
                timer |-> <<>>, exc |-> NoException]
    /\ GDIdle
    /\ CommIdle
    /\ BoxesIdle
    /\ DiagIdle
    /\ IterIdle
    /\ PairIdle
    /\ IntIdle
    /\ ProjIdle
    /\ UpdIdle
    /\ ConvIdle
    /\ NBIdle
    /\ CRIdle
    /\ RadIdle
    /\ RotIdle
    /\ PsIdle
    /\ KeepIdle

NextSub ==
    \/ SubStart
    \/ SubCheckBands
    \/ SubApplyHamiltonian
    \/ SubBuildH
    \/ SubSum
    \/ SubLapack
    \/ SubBroadcast
    \/ SubRotate
    \/ SubRotateP

SpecSub == InitSub /\ [][NextSub]_vars

(***************************************************************************)
(* C15: Eigensolver.diagonalize raises RuntimeError naming both band       *)
(* counts whenever the solver's nbands differs from kpt.nbands, before the *)
(* Hamiltonian is applied, before any communicator call and before         *)
(* kpt.psit_nG, kpt.eps_n, Htpsit_nG, work or H_nn is modified.            *)
(***************************************************************************)
C15_BandMismatchRaisesFirst ==
    /\ (sd.pc \notin {"start", "check"} /\ sd.nbands # sd.kpt_nbands) =>
          /\ sd.pc = "raised"
          /\ sd.exc.type = "RuntimeError"
          /\ sd.exc.args = <<sd.nbands, sd.kpt_nbands>>
          /\ sd.applied = 0
          /\ sd.comm = <<>>
          /\ sd.a = FreshArrays
    /\ (sd.pc = "raised" /\ sd.exc.args # <<>>) => sd.nbands # sd.kpt_nbands

C15_Witness ==
    /\ sd.pc = "raised" /\ sd.nbands = 2 /\ sd.kpt_nbands = 1
    /\ sd.exc.msg = "Bands: %d != %d"

(***************************************************************************)
(* C16 as stated: after initialize every k-point has an eps_n of length    *)
(* mynbands, whatever eps_n it carried before.                             *)
(***************************************************************************)
C16_EpsLength_WhateverCarried ==
    es.initialized =>
        \A k \in DOMAIN wfs.eps_n :
            ~wfs.eps_n[k].is_None /\ wfs.eps_n[k].len = es.mynbands

(***************************************************************************)
(* C16: after initialize every k-point has an eps_n; one that had none     *)
(* got a new array of length mynbands, one that carried an array keeps     *)
(* that array, of whatever length.                                         *)
(***************************************************************************)
C16_EpsLength ==
    es.initialized =>
        /\ es.mynbands = wfs.mynbands
        /\ \A k \in DOMAIN wfs.eps_n :
              IF wfs.eps_n_before[k].is_None
              THEN wfs.eps_n[k] = eps_array(es.mynbands, "np.empty")
              ELSE wfs.eps_n[k] = wfs.eps_n_before[k]

C16_Witness ==
    /\ es.initialized /\ wfs.nkpt = 2 /\ wfs.mynbands = 2
    /\ wfs.eps_n_before[0].is_None /\ wfs.eps_n[0].len = 2
    /\ wfs.eps_n[1] = eps_array(3, "carried")

(***************************************************************************)
(* Eigensolver.iterate of eigensolvers/__init__.py: the convergence        *)
(* criterion.  The workers form a grid of k-point ranks times domain       *)
(* ranks; worker <<k, d>> shares its k-point communicator with the workers *)
(* of the same d and its domain communicator with those of the same k.     *)
(* The error is a float: it is kept as a fraction num / den.               *)
(***************************************************************************)
\* the lengths of a worker's kpt_u explored
KptCounts == {1, 2}

\* the sizes <<kpt_comm.size, comm.size>> explored
ConvSizes == {<<1, 1>>, <<2, 1>>, <<1, 2>>, <<2, 2>>}

\* the values of nvalence explored
NvalenceChoices == {0, 1, 2}

Fraction(num, den) == [num |-> num, den |-> den]

\* the tolerances explored
ToleranceChoices == {Fraction(0, 1), Fraction(1, 2), Fraction(1, 1)}

\* the values an iterate_one_k_point may return
ErrorChoices == {0, 1}

ConvWorkers == DOMAIN cw

\* the workers of w's k-point communicator, of w's domain communicator
kpt_comm(w) == {v \in ConvWorkers : v[2] = w[2]}
comm(w) == {v \in ConvWorkers : v[1] = w[1]}

RECURSIVE sum_over(_, _)
\* the sum of x[v] over the workers v of S
sum_over(S, x) ==
    IF S = {} THEN 0
    ELSE LET v == CHOOSE u \in S : TRUE
         IN  x[v] + sum_over(S \ {v}, x)

\* a mutant of less_equal: equality does not count
less_equal_strict(p, q) == p.num * q.den < q.num * p.den

\* p <= q for fractions of positive denominators
less_equal(p, q) == p.num * q.den <= q.num * p.den

\* a mutant of nvalence_is_zero: the early return is never taken
nvalence_is_zero_never(nvalence) == FALSE

\* line 49: self.nvalence == 0
nvalence_is_zero(nvalence) == nvalence = 0

\* lines 57 and 59: the divisor of the summed error
divisor == IF ccfg.convergeall THEN ccfg.nbands ELSE ccfg.nvalence

NoReturn == [kind |-> "None", error |-> Fraction(0, 1), converged |-> FALSE]
Return(error, converged) ==
    [kind |-> "tuple", error |-> error, converged |-> converged]

\* lines 49-52: the early return, or error = 0.0
ConvCall(w) ==
    /\ cw[w].pc = "call"
    /\ IF nvalence_is_zero(ccfg.nvalence)
       THEN cw' = [cw EXCEPT ![w].pc = "returned",
                             ![w].ret = Return(ccfg.tolerance, TRUE)]
       ELSE cw' = [cw EXCEPT ![w].pc = "for kpt in kpt_u", ![w].error = 0]
    /\ UNCHANGED <<restConv, ccfg>>

\* lines 53-54: one k-point is iterated and its error added
ConvIterateOneKPoint(w) ==
    /\ cw[w].pc = "for kpt in kpt_u"
    /\ cw[w].k < ccfg.nkpt
    /\ \E e \in ErrorChoices :
          cw' = [cw EXCEPT ![w].error = @ + e, ![w].k = @ + 1,
                           ![w].n_one = @ + 1]
    /\ UNCHANGED <<restConv, ccfg>>

\* lines 57 and 59: the worker enters kpt_comm.sum(error)
ConvKptSumEnter(w) ==
    /\ cw[w].pc = "for kpt in kpt_u"
    /\ cw[w].k = ccfg.nkpt
    /\ cw' = [cw EXCEPT ![w].pc = "kpt_comm.sum", ![w].kpt_in = cw[w].error,
                        ![w].n_sum = @ + 1]
    /\ UNCHANGED <<restConv, ccfg>>

\* lines 57 and 59: kpt_comm.sum returns once every worker of the k-point
\* communicator has entered it, and its result enters comm.sum
ConvKptSum(w) ==
    /\ cw[w].pc = "kpt_comm.sum"
    /\ \A v \in kpt_comm(w) : cw[v].kpt_in >= 0
    /\ cw' = [cw EXCEPT ![w].pc = "comm.sum",
                        ![w].comm_in =
                            sum_over(kpt_comm(w),
                                     [v \in ConvWorkers |-> cw[v].kpt_in]),
                        ![w].n_sum = @ + 1]
    /\ UNCHANGED <<restConv, ccfg>>

\* lines 56-61: comm.sum returns once every worker of the domain
\* communicator has entered it; the division and the comparison
ConvReturn(w) ==
    /\ cw[w].pc = "comm.sum"
    /\ \A v \in comm(w) : cw[v].comm_in >= 0
    /\ LET total == sum_over(comm(w),
                             [v \in ConvWorkers |-> cw[v].comm_in])
           error == Fraction(total, divisor)
       IN  cw' = [cw EXCEPT ![w].pc = "returned",
                            ![w].ret =
                                Return(error,
                                       less_equal(error, ccfg.tolerance))]
    /\ UNCHANGED <<restConv, ccfg>>

InitConv ==
    /\ \E sz \in ConvSizes, nkpt \in KptCounts,
          nbands \in 1..MaxBands, nvalence \in NvalenceChoices,
          convergeall \in BOOLEAN, tolerance \in ToleranceChoices :
          /\ ccfg = [nkpt |-> nkpt, nbands |-> nbands, nvalence |-> nvalence,
                     convergeall |-> convergeall, tolerance |-> tolerance]
          /\ cw = [w \in (0..(sz[1] - 1)) \X (0..(sz[2] - 1)) |->
                     [pc |-> "call", k |-> 0, error |-> -1, kpt_in |-> -1,
                      comm_in |-> -1, ret |-> NoReturn, n_one |-> 0,
                      n_sum |-> 0]]
    /\ GDIdle
    /\ CommIdle
    /\ BoxesIdle
    /\ DiagIdle
    /\ IterIdle
    /\ PairIdle
    /\ IntIdle
    /\ ProjIdle
    /\ UpdIdle
    /\ SubIdle
    /\ NBIdle
    /\ CRIdle
    /\ RadIdle
    /\ RotIdle
    /\ PsIdle
    /\ KeepIdle

NextConv ==
    \E w \in ConvWorkers :
       \/ ConvCall(w)
       \/ ConvIterateOneKPoint(w)
       \/ ConvKptSumEnter(w)
       \/ ConvKptSum(w)
       \/ ConvReturn(w)

SpecConv == InitConv /\ [][NextConv]_vars

\* the errors all workers' iterate_one_k_point calls returned, summed: every
\* worker's error once its loop is over
TotalError == sum_over(ConvWorkers, [v \in ConvWorkers |-> cw[v].error])

(***************************************************************************)
(* C17: with nvalence # 0 a worker's iterate returns (error, converged),   *)
(* error being the sum of the iterate_one_k_point results of the workers   *)
(* of both communicators divided by nbands (convergeall) or nvalence, and  *)
(* converged being error <= tolerance, equality included.                  *)
(***************************************************************************)
C17_IterateConvergence ==
    \A w \in ConvWorkers :
       (cw[w].pc = "returned" /\ ccfg.nvalence # 0) =>
          /\ cw[w].ret.kind = "tuple"
          /\ cw[w].n_one = ccfg.nkpt
          /\ cw[w].ret.error.num = TotalError
          /\ cw[w].ret.error.den =
                (IF ccfg.convergeall THEN ccfg.nbands ELSE ccfg.nvalence)
          /\ cw[w].ret.converged <=>
                (TotalError * ccfg.tolerance.den
                    <= ccfg.tolerance.num * cw[w].ret.error.den)

\* four workers have returned an error of 2/2 = 1 = tolerance, converged
C17_Witness ==
    /\ Cardinality(ConvWorkers) = 4
    /\ \A w \in ConvWorkers : cw[w].pc = "returned"
    /\ ccfg.nvalence = 2 /\ ~ccfg.convergeall
    /\ ccfg.tolerance = Fraction(1, 1)
    /\ TotalError = 2
    /\ \A w \in ConvWorkers : cw[w].ret.converged
    /\ \E w \in ConvWorkers : cw[w].error = 0

(***************************************************************************)
(* C18: with nvalence = 0 iterate returns (tolerance, True) at once: no    *)
(* iterate_one_k_point, no reduction, nothing modified.                    *)
(***************************************************************************)
C18_NoValenceReturnsAtOnce ==
    \A w \in ConvWorkers :
       ccfg.nvalence = 0 =>
          /\ cw[w].n_one = 0 /\ cw[w].n_sum = 0
          /\ cw[w].k = 0 /\ cw[w].error = -1
          /\ cw[w].kpt_in = -1 /\ cw[w].comm_in = -1
          /\ cw[w].pc \in {"call", "returned"}
          /\ cw[w].pc = "returned" =>
                cw[w].ret = Return(ccfg.tolerance, TRUE)

C18_Witness ==
    /\ ccfg # <<>>
    /\ ccfg.nvalence = 0 /\ ccfg.tolerance = Fraction(0, 1)
    /\ Cardinality(ConvWorkers) = 2
    /\ \E w, v \in ConvWorkers :
          cw[w].pc = "returned" /\ cw[w].ret.converged /\ cw[v].pc = "call"

(***************************************************************************)
(* Non-blocking sends and receives: the master's loop of                   *)
(* GridDescriptor.distribute (grid_descriptor.py) and the ring exchange of *)
(* overlap and matrix_multiply (test/parallel/bandpar.py).  An array is    *)
(* <<rank, k>>; its contents are the number of the block it holds.  The    *)
(* communicator reads a send buffer when it buffers the message or when it *)
(* hands it to the receiver, whichever comes first; a request is complete  *)
(* from then on, and a wait returns once its request is complete.          *)
(***************************************************************************)
MaxRingRanks == 3   \* the communicator has 1..MaxRingRanks ranks

ExchangeKinds == {"distribute", "overlap", "matrix_multiply"}

Freed == -2         \* what is read from a released array

XRanks == DOMAIN xp

\* the tag of the messages: 42 in distribute and overlap, 117 in
\* matrix_multiply
tag_of(kind) == IF kind = "matrix_multiply" THEN 117 ELSE 42

\* a mutant of nshifts: overlap makes one shifted product less for even B
nshifts_short(kind, B) == IF kind = "overlap" THEN (B - 1) \div 2 ELSE B - 1

\* the number of shifts: Q - 1 with Q = B // 2 + 1 in overlap, B - 1 in
\* matrix_multiply
nshifts(kind, B) == IF kind = "overlap" THEN B \div 2 ELSE B - 1

\* the kinds of the requests posted on array b and not yet waited for
Pending(b) ==
    {xreq[b[1]][q].kind :
        q \in {i \in DOMAIN xreq[b[1]] :
                 xreq[b[1]][i].buf = b /\ xreq[b[1]][i].state # "waited"}}

\* the request rank r posts next, and request q
next_request(r) == <<r, Len(xreq[r]) + 1>>
request(q) == xreq[q[1]][q[2]]

\* an access of the program to array b through the name var
Access(op, var, b) == [op |-> op, var |-> var, pending |-> Pending(b)]

\* what the communicator or the program reads from array b
contents(b) == IF xbuf[b].alive THEN xbuf[b].data ELSE Freed

\* comm.send(a, dest, tag, False): the request and the message
post_send(r, b, dest, tag) ==
    /\ xreq' = [xreq EXCEPT ![r] =
                   Append(@, [kind |-> "send", buf |-> b, peer |-> dest,
                              tag |-> tag, state |-> "posted"])]
    /\ xchan' = [xchan EXCEPT ![<<r, dest>>] =
                    Append(@, [req |-> next_request(r), tag |-> tag,
                               copied |-> FALSE, data |-> Uninit])]

\* comm.receive(a, src, tag, False): the request
post_receive(r, b, src, tag) ==
    xreq' = [xreq EXCEPT ![r] =
                Append(@, [kind |-> "receive", buf |-> b, peer |-> src,
                           tag |-> tag, state |-> "posted"])]

\* comm.wait(request) returns
wait(q) ==
    /\ request(q).state = "complete"
    /\ xreq' = [xreq EXCEPT ![q[1]][q[2]].state = "waited"]

\* the communicator copies a posted message out of its send buffer
CommBuffer(src, dst) ==
    /\ \E k \in DOMAIN xchan[<<src, dst>>] :
          LET m == xchan[<<src, dst>>][k]
          IN  /\ ~m.copied
              /\ xchan' = [xchan EXCEPT ![<<src, dst>>][k] =
                              [m EXCEPT !.copied = TRUE,
                                        !.data = contents(request(m.req).buf)]]
              /\ xreq' = [xreq EXCEPT ![src][m.req[2]].state = "complete"]
    /\ UNCHANGED <<restNB, xrun, xp, xbuf, xev>>

\* the communicator hands the oldest message of src to the oldest matching
\* receive posted by dst
CommTransfer(src, dst) ==
    /\ xchan[<<src, dst>>] # <<>>
    /\ LET m == Head(xchan[<<src, dst>>])
           posted == {i \in DOMAIN xreq[dst] :
                        /\ xreq[dst][i].kind = "receive"
                        /\ xreq[dst][i].peer = src /\ xreq[dst][i].tag = m.tag
                        /\ xreq[dst][i].state = "posted"}
       IN  /\ posted # {}
           /\ LET p == CHOOSE i \in posted : \A j \in posted : i <= j
                  data == IF m.copied THEN m.data
                          ELSE contents(request(m.req).buf)
                  sent == [xreq EXCEPT
                              ![src][m.req[2]].state =
                                  IF @ = "posted" THEN "complete" ELSE @]
              IN  /\ xbuf' = [xbuf EXCEPT ![xreq[dst][p].buf].data = data]
                  /\ xreq' = [sent EXCEPT ![dst][p].state = "complete"]
                  /\ xchan' = [xchan EXCEPT ![<<src, dst>>] = Tail(@)]
    /\ UNCHANGED <<restNB, xrun, xp, xev>>

\* bandpar.py line 81 or 121: send_mG[:] = psit_mG
RingStart(r) ==
    /\ xrun.kind # "distribute" /\ xp[r].pc = "start"
    /\ xev' = xev \cup {Access("write", "send_mG", xp[r].send_mG)}
    /\ xbuf' = [xbuf EXCEPT ![xp[r].send_mG].data = r]
    /\ xp' = [xp EXCEPT ![r].pc = IF nshifts(xrun.kind, xrun.size) > 0
                                  THEN "receive" ELSE "final"]
    /\ UNCHANGED <<restNB, xrun, xreq, xchan>>

\* line 85 or 124: rrequest = band_comm.receive(recv_mG, (rank + 1) % B, ..)
RingPostReceive(r) ==
    /\ xrun.kind # "distribute" /\ xp[r].pc = "receive"
    /\ post_receive(r, xp[r].recv_mG, (r + 1) % xrun.size, tag_of(xrun.kind))
    /\ xp' = [xp EXCEPT ![r].pc = "send", ![r].rrequest = next_request(r)]
    /\ UNCHANGED <<restNB, xrun, xbuf, xchan, xev>>

\* line 86 or 125: srequest = band_comm.send(send_mG, (rank - 1) % B, ..)
RingPostSend(r) ==
    /\ xrun.kind # "distribute" /\ xp[r].pc = "send"
    /\ post_send(r, xp[r].send_mG, (r - 1) % xrun.size, tag_of(xrun.kind))
    /\ xp' = [xp EXCEPT ![r].pc = "compute", ![r].srequest = next_request(r)]
    /\ UNCHANGED <<restNB, xrun, xbuf, xev>>

\* a[k] for a of length n: a negative index counts from the end
py_index(k, n) == IF k < 0 THEN k + n ELSE k

\* a mutant of shift_column: the ring is read the other way round
shift_column_backwards(rank, i, B) == (rank - i) % B

\* line 126: the column (rank + i) % B of C_imim[rank]
shift_column(rank, i, B) == (rank + i) % B

\* lines 87 and 126: the product of shift i, S_imm[i] = np.inner(psit_mG,
\* send_mG) or psit_mG += np.dot(C_imim[rank, :, (rank + i) % B], send_mG):
\* the slot of S_imm or the column of C, and the block in send_mG
product(r, i) ==
    [c |-> IF xrun.kind = "overlap" THEN i
           ELSE shift_column(r, i, xrun.size),
     psi |-> contents(xp[r].send_mG)]

\* lines 91 and 130: S_imm[Q - 1] = np.inner(psit_mG, send_mG) or
\* psit_mG += np.dot(C_imim[rank, :, rank - 1], send_mG)
last_product(r) ==
    [c |-> IF xrun.kind = "overlap" THEN nshifts("overlap", xrun.size)
           ELSE py_index(r - 1, xrun.size),
     psi |-> contents(xp[r].send_mG)]

\* line 87 or 126: np.inner(psit_mG, send_mG) or np.dot(.., send_mG)
RingCompute(r) ==
    /\ xrun.kind # "distribute" /\ xp[r].pc = "compute"
    /\ xev' = xev \cup {Access("read", "send_mG", xp[r].send_mG)}
    /\ xp' = [xp EXCEPT ![r].pc = "wait rrequest",
                        ![r].seen = Append(@, contents(xp[r].send_mG)),
                        ![r].terms = Append(@, product(r, xp[r].i))]
    /\ UNCHANGED <<restNB, xrun, xbuf, xreq, xchan>>

\* line 88 or 127: band_comm.wait(rrequest)
RingWaitReceive(r) ==
    /\ xrun.kind # "distribute" /\ xp[r].pc = "wait rrequest"
    /\ wait(xp[r].rrequest)
    /\ xp' = [xp EXCEPT ![r].pc = "wait srequest"]
    /\ UNCHANGED <<restNB, xrun, xbuf, xchan, xev>>

\* line 89 or 128: band_comm.wait(srequest)
RingWaitSend(r) ==
    /\ xrun.kind # "distribute" /\ xp[r].pc = "wait srequest"
    /\ wait(xp[r].srequest)
    /\ xp' = [xp EXCEPT ![r].pc = "swap"]
    /\ UNCHANGED <<restNB, xrun, xbuf, xchan, xev>>

\* line 90 or 129: send_mG, recv_mG = recv_mG, send_mG; the next shift
RingSwap(r) ==
    /\ xrun.kind # "distribute" /\ xp[r].pc = "swap"
    /\ xev' = xev \cup {Access("swap", "send_mG", xp[r].send_mG),
                        Access("swap", "recv_mG", xp[r].recv_mG)}
    /\ xp' = [xp EXCEPT ![r].send_mG = xp[r].recv_mG,
                        ![r].recv_mG = xp[r].send_mG,
                        ![r].i = @ + 1,
                        ![r].pc = IF xp[r].i + 1 <
                                        nshifts(xrun.kind, xrun.size)
                                  THEN "receive" ELSE "final"]
    /\ UNCHANGED <<restNB, xrun, xbuf, xreq, xchan>>

\* line 91 or 130: the last product with send_mG
RingFinal(r) ==
    /\ xrun.kind # "distribute" /\ xp[r].pc = "final"
    /\ xev' = xev \cup {Access("read", "send_mG", xp[r].send_mG)}
    /\ xp' = [xp EXCEPT ![r].pc = IF xrun.kind = "overlap" THEN "collect"
                                  ELSE "done",
                        ![r].seen = Append(@, contents(xp[r].send_mG)),
                        ![r].terms = Append(@, last_product(r))]
    /\ UNCHANGED <<restNB, xrun, xbuf, xreq, xchan>>

\* np.inner(psit_mG, send_mG) of the blocks of ranks a and b: the M x M
\* matrix whose entry (m, m') is the overlap of band m of a and band m' of b
inner(a, b) == [row |-> a, col |-> b]

\* S.T: the overlap matrix of real wave functions transposed
transposed(S) == [row |-> S.col, col |-> S.row]

\* lines 74 and 78: Q = B // 2 + 1 matrices S_imm[0 .. Q - 1], here at
\* indices 1 .. Q, S_imm[c] being the product stored under c by lines 87, 91
S_imm(r) ==
    [k \in 1..(nshifts("overlap", xrun.size) + 1) |->
        LET t == CHOOSE t \in {xp[r].terms[n] : n \in DOMAIN xp[r].terms} :
                     t.c = k - 1
        IN  inner(r, t.psi)]

\* lines 98-99: S_nn[:] = 11111.77777, a block being the set of the values
\* written to it, empty while it holds the placeholder
placeholder(B) == [b \in (0..(B - 1)) \X (0..(B - 1)) |-> {}]

\* S_imim[i, :, j] = S
set_block(S_nn, i, j, S) == [S_nn EXCEPT ![<<i, j>>] = @ \cup {S}]

\* line 101: S_imim[:Q, :, 0] = S_imm.transpose(0, 2, 1)
RECURSIVE set_own_blocks(_, _, _)
set_own_blocks(S_nn, S, i2) ==
    IF i2 = 0 THEN S_nn
    ELSE set_block(set_own_blocks(S_nn, S, i2 - 1), i2 - 1, 0,
                   transposed(S[i2]))

\* lines 105-109: the blocks of rank i1, for i2 in range(Q)
RECURSIVE set_blocks_of(_, _, _, _, _)
set_blocks_of(S_nn, S, i1, i2, B) ==
    IF i2 = 0 THEN S_nn
    ELSE LET done == set_blocks_of(S_nn, S, i1, i2 - 1, B)
             k == i2 - 1
         IN  IF i1 + k < B
             THEN set_block(done, i1 + k, i1, transposed(S[i2]))
             ELSE set_block(done, i1, i1 + k - B, S[i2])

\* lines 96-101 on the master: S_nn with the placeholder, then its own blocks
OverlapMasterOwn ==
    /\ xrun.kind = "overlap" /\ xp[0].pc = "collect"
    /\ xp' = [xp EXCEPT
                 ![0].S_nn = set_own_blocks(placeholder(xrun.size), S_imm(0),
                                            nshifts("overlap", xrun.size) + 1),
                 ![0].i1 = 1,
                 ![0].pc = IF xrun.size = 1 THEN "done" ELSE "receive S_imm"]
    /\ UNCHANGED <<restNB, xrun, xbuf, xreq, xchan, xev>>

\* line 115 on the other ranks: band_comm.send(S_imm, 0, band_comm.rank)
OverlapSlaveSend(r) ==
    /\ xrun.kind = "overlap" /\ r # 0 /\ xp[r].pc = "collect"
    /\ xchan' = [xchan EXCEPT ![<<r, 0>>] =
                    Append(@, [req |-> <<>>, tag |-> r, copied |-> TRUE,
                               data |-> S_imm(r)])]
    /\ xp' = [xp EXCEPT ![r].pc = "done"]
    /\ UNCHANGED <<restNB, xrun, xbuf, xreq, xev>>

\* lines 103-109 on the master: band_comm.receive(S_imm, i1, i1) and the
\* blocks of rank i1; line 111 after the last rank
OverlapMasterReceive ==
    /\ xrun.kind = "overlap" /\ xp[0].pc = "receive S_imm"
    /\ LET i1 == xp[0].i1
           c == xchan[<<i1, 0>>]
       IN  /\ c # <<>> /\ Head(c).tag = i1
           /\ xchan' = [xchan EXCEPT ![<<i1, 0>>] = Tail(c)]
           /\ xp' = [xp EXCEPT
                        ![0].S_nn = set_blocks_of(@, Head(c).data, i1,
                                        nshifts("overlap", xrun.size) + 1,
                                        xrun.size),
                        ![0].i1 = i1 + 1,
                        ![0].pc = IF i1 + 1 = xrun.size THEN "done"
                                  ELSE "receive S_imm"]
    /\ UNCHANGED <<restNB, xrun, xbuf, xreq, xev>>

\* a mutant of requests_append: the pair is not stored
requests_append_dropped(list, item) == list

\* grid_descriptor.py line 411: requests.append((request, a_xg))
requests_append(list, item) == Append(list, item)

\* the arrays named by a local of the master's frame f
referenced(f) ==
    (IF f.a_xg = <<>> THEN {} ELSE {f.a_xg})
       \cup {f.requests[k][2] : k \in DOMAIN f.requests}

\* the arrays of old that no local of f names any more are released
release(old, f) ==
    LET gone == referenced(old) \ referenced(f)
    IN  /\ xbuf' = [b \in DOMAIN xbuf |->
                       IF b \in gone THEN [xbuf[b] EXCEPT !.alive = FALSE]
                       ELSE xbuf[b]]
        /\ xev' = xev \cup {Access("release", "a_xg", b) : b \in gone}

\* lines 388-390: comm.size == 1, b_xg[:] = B_xg
DistributeSingle ==
    /\ xrun.kind = "distribute" /\ xrun.size = 1 /\ xp[0].pc = "start"
    /\ xbuf' = [xbuf EXCEPT ![<<0, 0>>].data = 0]
    /\ xp' = [xp EXCEPT ![0].pc = "done"]
    /\ UNCHANGED <<restNB, xrun, xreq, xchan, xev>>

\* lines 392-394 on a slave: self.comm.receive(b_xg, 0, 42) is entered
DistributeSlaveReceive(r) ==
    /\ xrun.kind = "distribute" /\ xrun.size > 1 /\ r # 0
    /\ xp[r].pc = "start"
    /\ post_receive(r, <<r, 0>>, 0, 42)
    /\ xp' = [xp EXCEPT ![r].pc = "wait rrequest",
                        ![r].rrequest = next_request(r)]
    /\ UNCHANGED <<restNB, xrun, xbuf, xchan, xev>>

\* lines 393-394 on a slave: the blocking receive returns, and distribute
DistributeSlaveReturn(r) ==
    /\ xrun.kind = "distribute" /\ xp[r].pc = "wait rrequest"
    /\ wait(xp[r].rrequest)
    /\ xp' = [xp EXCEPT ![r].pc = "done"]
    /\ UNCHANGED <<restNB, xrun, xbuf, xchan, xev>>

\* lines 396-405 and 412-414 on the master, r = 0: the own block
DistributeOwn ==
    /\ xrun.kind = "distribute" /\ xrun.size > 1 /\ xp[0].pc = "start"
    /\ xbuf' = [xbuf EXCEPT ![<<0, 0>>].data = 0]
    /\ xp' = [xp EXCEPT ![0].pc = "copy", ![0].i = 1]
    /\ UNCHANGED <<restNB, xrun, xreq, xchan, xev>>

\* line 406: a_xg = B_xg[..., b0:e0, b1:e1, b2:e2].copy(), the block of
\* rank r; the array a_xg named before loses that name
DistributeCopy ==
    /\ xrun.kind = "distribute" /\ xp[0].pc = "copy"
    /\ xp[0].i < xrun.size
    /\ LET r == xp[0].i
           f == [xp[0] EXCEPT !.pc = "send", !.a_xg = <<0, r>>]
           gone == referenced(xp[0]) \ referenced(f)
       IN  /\ xp' = [xp EXCEPT ![0] = f]
           /\ xbuf' = [b \in DOMAIN xbuf |->
                          IF b = <<0, r>> THEN [data |-> r, alive |-> TRUE]
                          ELSE IF b \in gone
                          THEN [xbuf[b] EXCEPT !.alive = FALSE]
                          ELSE xbuf[b]]
           /\ xev' = xev \cup {Access("release", "a_xg", b) : b \in gone}
    /\ UNCHANGED <<restNB, xrun, xreq, xchan>>

\* lines 407-411 and 414: the non-blocking send of a_xg to rank r, the
\* pair is appended, r += 1
DistributeSend ==
    /\ xrun.kind = "distribute" /\ xp[0].pc = "send"
    /\ post_send(0, xp[0].a_xg, xp[0].i, 42)
    /\ xp' = [xp EXCEPT ![0].pc = "copy", ![0].i = @ + 1,
                        ![0].requests =
                            requests_append(@, <<next_request(0),
                                                 xp[0].a_xg>>)]
    /\ UNCHANGED <<restNB, xrun, xbuf, xev>>

\* line 416: the loop over the blocks is over
DistributeLoopEnd ==
    /\ xrun.kind = "distribute" /\ xp[0].pc = "copy"
    /\ xp[0].i = xrun.size
    /\ xp' = [xp EXCEPT ![0].pc = "wait", ![0].j = 1]
    /\ UNCHANGED <<restNB, xrun, xbuf, xreq, xchan, xev>>

\* lines 416-417: for request, a_xg in requests: self.comm.wait(request)
DistributeWaitRequest ==
    /\ xrun.kind = "distribute" /\ xp[0].pc = "wait"
    /\ xp[0].j <= Len(xp[0].requests)
    /\ LET item == xp[0].requests[xp[0].j]
           f == [xp[0] EXCEPT !.a_xg = item[2], !.j = @ + 1]
       IN  /\ wait(item[1])
           /\ xp' = [xp EXCEPT ![0] = f]
           /\ release(xp[0], f)
    /\ UNCHANGED <<restNB, xrun, xchan>>

\* line 417: distribute returns on the master and its locals go
DistributeReturn ==
    /\ xrun.kind = "distribute" /\ xp[0].pc = "wait"
    /\ xp[0].j > Len(xp[0].requests)
    /\ LET f == [xp[0] EXCEPT !.pc = "done", !.a_xg = <<>>,
                              !.requests = <<>>]
       IN  /\ xp' = [xp EXCEPT ![0] = f]
           /\ release(xp[0], f)
    /\ UNCHANGED <<restNB, xrun, xreq, xchan>>

InitNB ==
    /\ \E kind \in ExchangeKinds, n \in 1..MaxRingRanks :
          /\ xrun = [kind |-> kind, size |-> n]
          /\ xp = [r \in 0..(n - 1) |->
                     [pc |-> "start", i |-> 0,
                      send_mG |-> <<r, 0>>, recv_mG |-> <<r, 1>>,
                      rrequest |-> <<>>, srequest |-> <<>>, seen |-> <<>>,
                      terms |-> <<>>,
                      a_xg |-> <<>>, requests |-> <<>>, j |-> 0,
                      S_nn |-> <<>>, i1 |-> 0]]
          /\ xbuf = [b \in (0..(n - 1)) \X (0..(n - 1 + 1)) |->
                       [data |-> Uninit,
                        alive |-> IF kind = "distribute" THEN b[2] = 0
                                  ELSE b[2] \in {0, 1}]]
          /\ xchan = [c \in (0..(n - 1)) \X (0..(n - 1)) |-> <<>>]
          /\ xreq = [r \in 0..(n - 1) |-> <<>>]
    /\ xev = {}
    /\ GDIdle
    /\ CommIdle
    /\ BoxesIdle
    /\ DiagIdle
    /\ IterIdle
    /\ PairIdle
    /\ IntIdle
    /\ ProjIdle
    /\ UpdIdle
    /\ SubIdle
    /\ ConvIdle
    /\ CRIdle
    /\ RadIdle
    /\ RotIdle
    /\ PsIdle
    /\ KeepIdle

NextNB ==
    \/ \E src, dst \in XRanks : CommBuffer(src, dst)
    \/ \E src, dst \in XRanks : CommTransfer(src, dst)
    \/ \E r \in XRanks : RingStart(r)
    \/ \E r \in XRanks : RingPostReceive(r)
    \/ \E r \in XRanks : RingPostSend(r)
    \/ \E r \in XRanks : RingCompute(r)
    \/ \E r \in XRanks : RingWaitReceive(r)
    \/ \E r \in XRanks : RingWaitSend(r)
    \/ \E r \in XRanks : RingSwap(r)
    \/ \E r \in XRanks : RingFinal(r)
    \/ OverlapMasterOwn
    \/ \E r \in XRanks : OverlapSlaveSend(r)
    \/ OverlapMasterReceive
    \/ DistributeSingle
    \/ \E r \in XRanks : DistributeSlaveReceive(r)
    \/ \E r \in XRanks : DistributeSlaveReturn(r)
    \/ DistributeOwn
    \/ DistributeCopy
    \/ DistributeSend
    \/ DistributeLoopEnd
    \/ DistributeWaitRequest
    \/ DistributeReturn

SpecNB == InitNB /\ [][NextNB]_vars

\* every rank has returned
ExchangeDone == \A r \in XRanks : xp[r].pc = "done"

(***************************************************************************)
(* C19: an array with a pending non-blocking request is never written,     *)
(* swapped or released, and one with a pending receive is not read; an     *)
(* array with a pending request is still allocated; a rank that returned   *)
(* has waited for all its requests; and so every block arrives as it was   *)
(* posted: in the ring the k-th product sees the block of rank + k, in     *)
(* distribute rank r ends with block r.                                    *)
(***************************************************************************)
C19_NonBlockingBuffers ==
    /\ \A e \in xev :
          \/ e.pending = {}
          \/ e.op = "read" /\ e.var = "send_mG" /\ e.pending = {"send"}
    /\ \A r \in XRanks : \A q \in DOMAIN xreq[r] :
          /\ xreq[r][q].state # "waited" => xbuf[xreq[r][q].buf].alive
          /\ xp[r].pc = "done" => xreq[r][q].state = "waited"
    /\ \A r \in XRanks :
          xp[r].pc = "done" =>
             IF xrun.kind = "distribute"
             THEN /\ xbuf[<<r, 0>>].data = r
                  /\ r = 0 => Len(xreq[0]) = xrun.size - 1
             ELSE xp[r].seen = [k \in 1..(nshifts(xrun.kind, xrun.size) + 1)
                                   |-> (r + k - 1) % xrun.size]

\* three ranks have gone round the ring of matrix_multiply
C19_Witness ==
    /\ xrun # <<>>
    /\ xrun.kind = "matrix_multiply" /\ xrun.size = 3
    /\ ExchangeDone
    /\ \A r \in XRanks : Len(xreq[r]) = 4
    /\ {"read", "write", "swap"} \subseteq {e.op : e \in xev}

\* the master of distribute has returned after three sends, before a slave
\* has received
C19_WitnessDistribute ==
    /\ xrun # <<>>
    /\ xrun.kind = "distribute" /\ xrun.size = 3
    /\ xp[0].pc = "done" /\ xp[1].pc = "start"
    /\ \E e \in xev : e.op = "release"

(***************************************************************************)
(* GridDescriptor.coarsen / GridDescriptor.refine: every rank coarsens its *)
(* descriptor and refines the result.                                      *)
(***************************************************************************)
\* the grid points per axis explored: spacings within the 1.3 of the
\* constructor's check need neighbouring counts
CoarsenNChoices == {2, 4, 5, 8, 10}

\* line 221: np.sometrue(self.N_c % 2)
not_divisible_by_2(g) == \E c \in Axes : g.N_c[c] % 2 # 0

\* lines 224-228, 233-237: GridDescriptor(N_c, self.cell_cv, self.pbc_c,
\* self.comm, self.parsize_c) and gd.use_fixed_bc = self.use_fixed_bc
derived(g, N_c) ==
    [GridDescriptor(N_c, g.cell_c, g.pbc_c, g.parsize_c, g.rank)
        EXCEPT !.use_fixed_bc = g.use_fixed_bc]

\* lines 224-228: the descriptor coarsen() builds
coarsen(g) == derived(g, [c \in Axes |-> g.N_c[c] \div 2])

\* a mutant of refine: use_fixed_bc is not carried over
refine_use_fixed_bc_lost(g) ==
    GridDescriptor([c \in Axes |-> g.N_c[c] * 2], g.cell_c, g.pbc_c,
                   g.parsize_c, g.rank)

\* lines 233-237: the descriptor refine() builds
refine(g) == derived(g, [c \in Axes |-> g.N_c[c] * 2])

\* the constructor, on grids of CoarsenNChoices points
ConstructGrid ==
    /\ gd_pc = "new"
    /\ \E N_c \in [Axes -> CoarsenNChoices], pbc_c \in [Axes -> BOOLEAN],
          parsize_c \in [Axes -> 1..2], cell_c \in Cells :
          /\ ctor' = [N_c |-> N_c, pbc_c |-> pbc_c, parsize_c |-> parsize_c,
                      cell_c |-> cell_c]
          /\ gd_r' = [r \in Ranks(parsize_c) |->
                         GridDescriptor(N_c, cell_c, pbc_c, parsize_c, r)]
          /\ gd_pc' = IF GridDescriptor(N_c, cell_c, pbc_c, parsize_c, 0).err
                          = None
                       THEN "built" ELSE "raised"
    /\ UNCHANGED restGD

\* gd.use_fixed_bc = True, by the owner of the descriptor
SetUseFixedBC ==
    /\ gd_pc = "built" /\ cr = <<>>
    /\ ~gd_r[0].use_fixed_bc
    /\ gd_r' = [r \in DOMAIN gd_r |-> [gd_r[r] EXCEPT !.use_fixed_bc = TRUE]]
    /\ UNCHANGED <<restGD, gd_pc, ctor>>

\* lines 217-228: coarsen() on every rank
Coarsen ==
    /\ gd_pc = "built" /\ cr = <<>>
    /\ cr' = IF not_divisible_by_2(gd_r[0])
             THEN [pc |-> "raised", err |-> "Grid not divisible by 2!",
                   self |-> gd_r, coarse |-> <<>>, fine |-> <<>>]
             ELSE IF coarsen(gd_r[0]).err # None
             THEN [pc |-> "raised", err |-> coarsen(gd_r[0]).err,
                   self |-> gd_r, coarse |-> <<>>, fine |-> <<>>]
             ELSE [pc |-> "coarsened", err |-> None, self |-> gd_r,
                   coarse |-> [r \in DOMAIN gd_r |-> coarsen(gd_r[r])],
                   fine |-> <<>>]
    /\ UNCHANGED restCR

\* lines 230-237: refine() of the coarsened descriptor, on every rank
Refine ==
    /\ cr # <<>>
    /\ cr.pc = "coarsened"
    /\ cr' = IF refine(cr.coarse[0]).err # None
             THEN [cr EXCEPT !.pc = "refine raised",
                             !.err = refine(cr.coarse[0]).err]
             ELSE [cr EXCEPT !.pc = "refined",
                             !.fine = [r \in DOMAIN cr.coarse |->
                                          refine(cr.coarse[r])]]
    /\ UNCHANGED restCR

InitCR ==
    /\ gd_pc = "new"
    /\ gd_r = <<>>
    /\ ctor = <<>>
    /\ cr = <<>>
    /\ CommIdle
    /\ BoxesIdle
    /\ DiagIdle
    /\ IterIdle
    /\ PairIdle
    /\ IntIdle
    /\ ProjIdle
    /\ UpdIdle
    /\ SubIdle
    /\ ConvIdle
    /\ NBIdle
    /\ RadIdle
    /\ RotIdle
    /\ PsIdle
    /\ KeepIdle

NextCR ==
    \/ ConstructGrid
    \/ SetUseFixedBC
    \/ Coarsen
    \/ Refine

SpecCR == InitCR /\ [][NextCR]_vars

(***************************************************************************)
(* C20: when N_c is even on all axes and coarsen() succeeds, refine() of   *)
(* the coarsened descriptor succeeds and has on every rank the N_c, cell,  *)
(* pbc flags, decomposition, beg_c, end_c and use_fixed_bc of gd, the      *)
(* coarsened one has N_c / 2, and gd is unchanged; when some N_c[c] is odd *)
(* coarsen() raises ValueError.                                            *)
(***************************************************************************)
C20_CoarsenRefineInverse ==
    cr # <<>> =>
       /\ gd_r = cr.self
       /\ (\E c \in Axes : ctor.N_c[c] % 2 # 0) <=>
             (cr.pc = "raised" /\ cr.err = "Grid not divisible by 2!")
       /\ cr.pc # "refine raised"
       /\ cr.pc \in {"coarsened", "refined"} =>
             \A r \in DOMAIN gd_r :
                /\ \A c \in Axes : 2 * cr.coarse[r].N_c[c] = gd_r[r].N_c[c]
                /\ cr.coarse[r].use_fixed_bc = gd_r[r].use_fixed_bc
       /\ cr.pc = "refined" =>
             /\ DOMAIN cr.fine = DOMAIN gd_r
             /\ \A r \in DOMAIN gd_r :
                   /\ cr.fine[r].N_c = gd_r[r].N_c
                   /\ cr.fine[r].cell_c = gd_r[r].cell_c
                   /\ cr.fine[r].pbc_c = gd_r[r].pbc_c
                   /\ cr.fine[r].parsize_c = gd_r[r].parsize_c
                   /\ cr.fine[r].parpos_c = gd_r[r].parpos_c
                   /\ cr.fine[r].n_cp = gd_r[r].n_cp
                   /\ cr.fine[r].beg_c = gd_r[r].beg_c
                   /\ cr.fine[r].end_c = gd_r[r].end_c
                   /\ cr.fine[r].n_c = gd_r[r].n_c
                   /\ cr.fine[r].use_fixed_bc = gd_r[r].use_fixed_bc

\* an 8 x 10 x 8 grid with use_fixed_bc set, split unevenly over four
\* ranks, has been coarsened and refined
C20_Witness ==
    /\ cr # <<>>
    /\ cr.pc = "refined"
    /\ ctor.N_c[0] = 8 /\ ctor.N_c[1] = 10 /\ ctor.N_c[2] = 8
    /\ ctor.parsize_c[0] = 2 /\ ctor.parsize_c[1] = 1
    /\ ctor.parsize_c[2] = 2
    /\ ~ctor.pbc_c[0]
    /\ gd_r[0].use_fixed_bc
    /\ gd_r[0].n_c[0] # gd_r[2].n_c[0]
    /\ cr.coarse[0].n_c[0] # cr.coarse[2].n_c[0]

\* coarsen() has raised on a grid with an odd axis
C20_WitnessOdd ==
    /\ cr # <<>>
    /\ cr.pc = "raised" /\ ctor.N_c[1] = 5 /\ ctor.N_c[0] = 4

AtomRange(a) == Range(po.ni_a[a], po.ni_a[a + 1])

\* the entries of the block of the pair (a1, a2)
Block(a1, a2) == AtomRange(a1) \X AtomRange(a2)

(***************************************************************************)
(* C22: ni_a[0] = 0, ni_a[a+1] - ni_a[a] = ni of atom a >= 0 and           *)
(* len(self) = ni_a[-1]; the per-atom ranges are disjoint and tile         *)
(* [0, len(self)), the pair blocks tile the pair matrix, and               *)
(* assign_atomic_pair_matrix changes no entry outside the pair's block.    *)
(***************************************************************************)
C22_IndexTable ==
    /\ po.ni_a[0] = 0
    /\ DOMAIN po.ni_a = 0..po.natoms
    /\ \A a \in Atoms : /\ po.ni_a[a + 1] - po.ni_a[a] = po.ni[a]
                        /\ po.ni_a[a] <= po.ni_a[a + 1]
    /\ len_self = po.ni_a[po.natoms]
    /\ X_aa.shape = <<len_self, len_self>>
    /\ UNION {AtomRange(a) : a \in Atoms} = Range(0, len_self)
    /\ \A a, b \in Atoms : a # b => AtomRange(a) \cap AtomRange(b) = {}
    /\ \A ij \in Pairs(len_self, len_self) :
          Cardinality({ab \in Atoms \X Atoms :
                          ij \in Block(ab[1], ab[2])}) = 1
    /\ px.pc \in {"assigned", "extracted"} =>
          \A ij \in Pairs(len_self, len_self) :
             IF ij \in Block(px.a1, px.a2)
             THEN X_aa.v[ij] = px.dX_ii.v[<<ij[1] - po.ni_a[px.a1],
                                            ij[2] - po.ni_a[px.a2]>>]
             ELSE X_aa.v[ij] = px.before.v[ij]

\* an off-diagonal 1 x 2 block has been assigned in a matrix of two atoms
\* whose other entries are all different and nonzero
C22_Witness ==
    /\ px.pc = "assigned" /\ po.natoms = 2
    /\ po.ni[0] = 1 /\ po.ni[1] = 2 /\ px.a1 = 0 /\ px.a2 = 1
    /\ px.before.v[<<0, 0>>] = 1
    /\ X_aa.v[<<0, 1>>] < 0 /\ X_aa.v[<<2, 2>>] = 9

(***************************************************************************)
(* RadialGridDescriptor, EquidistantRadialGridDescriptor and               *)
(* AERadialGridDescriptor with truncate().  An array attribute is a view   *)
(* [buf, len] of the first len elements of a buffer of the heap, as a      *)
(* numpy array or basic slice is; element g of a buffer is at g + 1.       *)
(* Values are fractions; dv_g is kept without its factor 4 pi.             *)
(***************************************************************************)
MaxNg == 3          \* the parent has 1..MaxNg radial points
MaxWrites == 2      \* in-place writes after truncate()

Variants == {"Equidistant", "AE"}
Fields == {"r_g", "dr_g", "dv_g", "d2gdr2"}

\* the value an in-place write stores
Written == Fraction(-1, 1)

NoView == [buf |-> 0, len |-> 0]

\* a new array with the values vals is put on the heap
allocate(heap, vals) == Append(heap, vals)
newest(heap, vals) == [buf |-> Len(heap) + 1, len |-> Len(vals)]

\* a[:n], a view of the same buffer
slice_to(view, n) == [buf |-> view.buf, len |-> Min(view.len, n)]

\* the values a view shows
values(heap, view) == [g \in 1..view.len |-> heap[view.buf][g]]

\* line 574: 4 * pi * r_g**2 * dr_g, without 4 pi
dv_of(r, dr) == Fraction(r.num * r.num * dr.num, r.den * r.den * dr.den)

\* lines 561-574: RadialGridDescriptor.__init__(this, r_g, dr_g) on the
\* descriptor d whose arrays r_g and dr_g are the views given; the heap
\* with dv_g on it, and the descriptor
radial_init(heap, d, r_g, dr_g) ==
    LET dv == [g \in 1..r_g.len |->
                  dv_of(heap[r_g.buf][g], heap[dr_g.buf][g])]
    IN  [heap |-> allocate(heap, dv),
         d |-> [d EXCEPT !.rcut = heap[r_g.buf][r_g.len], !.ng = r_g.len,
                         !.r_g = r_g, !.dr_g = dr_g,
                         !.dv_g = newest(heap, dv)]]

blank(variant, par, N) ==
    [variant |-> variant, par |-> par, N |-> N, ng |-> 0,
     rcut |-> Fraction(0, 1), r_g |-> NoView, dr_g |-> NoView,
     dv_g |-> NoView, d2gdr2 |-> NoView]

\* lines 638-646: EquidistantRadialGridDescriptor(h, ng):
\* r_g = h * np.arange(ng), dr_g = np.ones(ng) * h
Equidistant(heap, h, ng) ==
    LET r == [g \in 1..ng |-> Fraction(h * (g - 1), 1)]
        dr == [g \in 1..ng |-> Fraction(h, 1)]
        h1 == allocate(heap, r)
        h2 == allocate(h1, dr)
    IN  radial_init(h2, blank("Equidistant", h, ng),
                    newest(heap, r), newest(h1, dr))

\* lines 680-693: AERadialGridDescriptor(beta, N): r_g = beta g / (N - g),
\* dr_g = beta N / (N - g)**2, d2gdr2 = -2 N beta / (beta + r_g)**3
AE(heap, beta, N) ==
    LET r == [g \in 1..N |-> Fraction(beta * (g - 1), N - (g - 1))]
        dr == [g \in 1..N |->
                  Fraction(beta * N, (N - (g - 1)) * (N - (g - 1)))]
        d2 == [g \in 1..N |->
                  LET x == [num |-> beta * r[g].den + r[g].num,
                            den |-> r[g].den]
                  IN  Fraction(-2 * N * beta * x.den * x.den * x.den,
                               x.num * x.num * x.num)]
        h1 == allocate(heap, r)
        h2 == allocate(h1, dr)
        made == radial_init(h2, blank("AE", beta, N),
                            newest(heap, r), newest(h1, dr))
    IN  [heap |-> allocate(made.heap, d2),
         d |-> [made.d EXCEPT !.d2gdr2 = newest(made.heap, d2)]]

\* lines 654-655: EquidistantRadialGridDescriptor.truncate(gmax)
truncate_equidistant(heap, this, gmax) == Equidistant(heap, this.par, gmax)

\* lines 701-711: AERadialGridDescriptor.truncate(gcut)
truncate_ae(heap, this, gcut) ==
    LET made == radial_init(heap, blank("AE", this.par, this.N),
                            slice_to(this.r_g, gcut),
                            slice_to(this.dr_g, gcut))
        r_g == made.d.r_g
    IN  [heap |-> made.heap,
         d |-> [made.d EXCEPT !.d2gdr2 = slice_to(this.d2gdr2, gcut),
                              !.rcut = heap[r_g.buf][r_g.len]]]

\* what the arrays of descriptor d show
shown(heap, d) ==
    [f \in Fields |->
        CASE f = "r_g" -> values(heap, d.r_g)
          [] f = "dr_g" -> values(heap, d.dr_g)
          [] f = "dv_g" -> values(heap, d.dv_g)
          [] f = "d2gdr2" -> values(heap, d.d2gdr2)]

view_of(d, f) ==
    CASE f = "r_g" -> d.r_g
      [] f = "dr_g" -> d.dr_g
      [] f = "dv_g" -> d.dv_g
      [] f = "d2gdr2" -> d.d2gdr2

RadConstruct ==
    /\ rad.pc = "new"
    /\ \E variant \in Variants, par \in {1, 2}, ng \in 1..MaxNg :
          LET made == IF variant = "AE" THEN AE(<<>>, par, ng)
                      ELSE Equidistant(<<>>, par, ng)
          IN  rad' = [rad EXCEPT !.pc = "built", !.heap = made.heap,
                                 !.parent = made.d]
    /\ UNCHANGED restRad

RadTruncate ==
    /\ rad.pc = "built"
    /\ \E n \in 1..rad.parent.ng :
          LET made == IF rad.parent.variant = "AE"
                      THEN truncate_ae(rad.heap, rad.parent, n)
                      ELSE truncate_equidistant(rad.heap, rad.parent, n)
          IN  rad' = [rad EXCEPT !.pc = "truncated", !.heap = made.heap,
                                 !.child = made.d, !.n = n]
    /\ UNCHANGED restRad

\* an in-place write, d.f[g] = x, through the parent or through the
\* truncated descriptor
RadWrite ==
    /\ rad.pc \in {"truncated", "written"}
    /\ rad.writes < MaxWrites
    /\ \E through \in {"parent", "child"}, f \in Fields :
          LET d == IF through = "parent" THEN rad.parent ELSE rad.child
              v == view_of(d, f)
          IN  \E g \in 1..v.len :
                 rad' = [rad EXCEPT
                            !.pc = "written",
                            !.heap = [@ EXCEPT ![v.buf][g] = Written],
                            !.writes = @ + 1,
                            !.through = through,
                            !.before = [parent |-> shown(rad.heap, rad.parent),
                                        child |-> shown(rad.heap, rad.child)]]
    /\ UNCHANGED restRad

InitRad ==
    /\ rad = [pc |-> "new", heap |-> <<>>, parent |-> blank("", 0, 0),
              child |-> blank("", 0, 0), n |-> 0, writes |-> 0,
              through |-> "", before |-> <<>>]
    /\ GDIdle
    /\ CommIdle
    /\ BoxesIdle
    /\ DiagIdle
    /\ IterIdle
    /\ PairIdle
    /\ IntIdle
    /\ ProjIdle
    /\ UpdIdle
    /\ SubIdle
    /\ ConvIdle
    /\ NBIdle
    /\ CRIdle
    /\ RotIdle
    /\ PsIdle
    /\ KeepIdle

NextRad ==
    \/ RadConstruct
    \/ RadTruncate
    \/ RadWrite

SpecRad == InitRad /\ [][NextRad]_vars

\* the truncated descriptor shows the first n entries of the parent
TruncatedPrefix ==
    /\ rad.child.ng = rad.n
    /\ \A f \in Fields :
          LET p == shown(rad.heap, rad.parent)[f]
              c == shown(rad.heap, rad.child)[f]
          IN  IF f = "d2gdr2" /\ rad.parent.variant = "Equidistant"
              THEN c = <<>>
              ELSE c = [g \in 1..rad.n |-> p[g]]
    /\ rad.child.rcut = shown(rad.heap, rad.child)["r_g"][rad.n]

(***************************************************************************)
(* C23 as stated: for both variants truncate(n) returns a descriptor with  *)
(* the parent's first n entries, ng = n and rcut = r_g[n-1], and no later  *)
(* in-place write to an array of one of the two descriptors changes an     *)
(* array of the other.                                                     *)
(***************************************************************************)
C23_TruncateIndependent ==
    /\ rad.pc = "truncated" => TruncatedPrefix
    /\ rad.pc = "written" =>
          IF rad.through = "child"
          THEN shown(rad.heap, rad.parent) = rad.before.parent
          ELSE shown(rad.heap, rad.child) = rad.before.child

\* the non-blocking exchanges, every enabled step eventually taken
SpecNBFair == SpecNB /\ WF_vars(NextNB)

\* the terms C[r, j] . psi_j of the product on rank r
ExpectedTerms == {[c |-> j, psi |-> j] : j \in XRanks}

\* what C24 says of the states of matrix_multiply
RingProductState ==
    xrun.kind = "matrix_multiply" =>
       \A r \in XRanks :
          /\ xp[r].pc \in {"compute", "final"} =>
                contents(xp[r].send_mG) = (r + xp[r].i) % xrun.size
          /\ xp[r].pc = "done" =>
                /\ Len(xp[r].terms) = xrun.size
                /\ {xp[r].terms[k] : k \in DOMAIN xp[r].terms}
                      = ExpectedTerms

(***************************************************************************)
(* C24: for every number of blocks B and every rank r matrix_multiply      *)
(* terminates on all ranks; after i shifts the send buffer of rank r holds *)
(* the block of rank (r + i) mod B, and the result is the sum over j of    *)
(* C[r, j] . psi_j, every block once with its own coefficient block.       *)
(***************************************************************************)
C24_RingMatrixMultiply ==
    /\ []RingProductState
    /\ <>(xrun.kind = "matrix_multiply" => ExchangeDone)

\* three ranks have returned from matrix_multiply
C24_Witness ==
    /\ xrun # <<>>
    /\ xrun.kind = "matrix_multiply" /\ xrun.size = 3
    /\ ExchangeDone
    /\ xp[0].terms = <<[c |-> 0, psi |-> 0], [c |-> 1, psi |-> 1],
                       [c |-> 2, psi |-> 2]>>
    /\ xp[2].terms[3] = [c |-> 1, psi |-> 1]

(***************************************************************************)
(* C25: in overlap, for every number B of band blocks, the matrix of the   *)
(* master has every block (i, j) with i >= j written with the overlap of   *)
(* the wave functions of rank i and rank j once the master has returned    *)
(* (none keeps the placeholder), a block written twice has received the    *)
(* same value, and no block with i < j is ever written.                    *)
(***************************************************************************)
C25_OverlapAssembly ==
    (xrun.kind = "overlap" /\ xp[0].S_nn # <<>>) =>
        \A i, j \in XRanks :
           /\ xp[0].S_nn[<<i, j>>] \subseteq {inner(i, j)}
           /\ i < j => xp[0].S_nn[<<i, j>>] = {}
           /\ (xp[0].pc = "done" /\ i >= j) =>
                  xp[0].S_nn[<<i, j>>] = {inner(i, j)}

\* the master has returned the matrix assembled from three band blocks
C25_Witness ==
    /\ xrun.kind = "overlap" /\ xrun.size = 3
    /\ xp[0].pc = "done"
    /\ xp[0].S_nn[<<2, 0>>] = {inner(2, 0)}
    /\ xp[0].S_nn[<<2, 1>>] = {inner(2, 1)}

\* the master has returned the matrix of two band blocks, whose block (1, 0)
\* was written by the master and again from the matrices of rank 1
C25_WitnessTwice ==
    /\ xrun.kind = "overlap" /\ xrun.size = 2
    /\ xp[0].pc = "done" /\ xp[0].i1 = 2
    /\ xp[0].S_nn[<<1, 0>>] = {inner(1, 0)}

\* the worker is inside diagonalize and no step of it can be taken: it waits
\* in distribute or in a broadcast for data that is not there
Blocked(w) ==
    /\ dpc[w] \notin {"done", "raised"}
    /\ ~ENABLED (\/ Diagonalize(w)
                 \/ (w = root /\ BdDistributeRoot)
                 \/ BdDistributeReceive(w)
                 \/ BdBroadcast(w)
                 \/ GdBroadcastH(w)
                 \/ GdBroadcastEps(w))

\* no worker of the k-point can take a step any more
DiagQuiescent == \A w \in Workers : dpc[w] \in {"done", "raised"} \/ Blocked(w)

(***************************************************************************)
(* C26: diagonalize ends the same way on all workers of a k-point: when no *)
(* worker can take a step any more, either all have returned or all have   *)
(* raised; in particular, after a non-zero status on the root no worker is *)
(* left waiting in distribute or in a broadcast.                           *)
(***************************************************************************)
C26_SameEnding ==
    DiagQuiescent =>
        \/ \A w \in Workers : dpc[w] = "done"
        \/ \A w \in Workers : dpc[w] = "raised"

(***************************************************************************)
(* Eigensolver.diagonalize of eigensolvers/__init__.py called again and    *)
(* again over the k-points of one worker.  The grid arrays are buffers     *)
(* 0 .. nkpt + 1; kpt.psit_nG of each k-point, self.Htpsit_nG and          *)
(* self.work name buffers.  A buffer holds the wave functions of k-point k *)
(* after n rotations, H applied to them, or nothing yet.                   *)
(***************************************************************************)
MaxRotKpts == 2     \* k-points of the worker
MaxRotCalls == 4    \* calls of diagonalize

\* how a call may end: lines 86-87, line 117, line 145
RotOutcomes == {"bands differ", "Very Bad!!", "returned"}

Unwritten == [what |-> "empty", k |-> 0, n |-> 0]
Psit(k, n) == [what |-> "psit", k |-> k, n |-> n]
Htpsit(k, n) == [what |-> "Htpsit", k |-> k, n |-> n]

\* lines 94-96: kin.apply(psit_nG, Htpsit_nG, ..); Htpsit_nG += psit_nG * vt
apply_hamiltonian(a) ==
    [a EXCEPT !.buf[a.Htpsit_nG] =
                  Htpsit(a.buf[a.psit_nG].k, a.buf[a.psit_nG].n)]

\* gemm(1.0, x, H_nn, 0.0, ..): the array x rotated by the eigenvectors
rotated(x) == [x EXCEPT !.n = @ + 1]

\* lines 123 and 126: gemm(1.0, psit_nG, H_nn, 0.0, self.work), then
\* gemm(1.0, Htpsit_nG, H_nn, 0.0, psit_nG)
rotate(a) ==
    LET first == [a EXCEPT !.buf[a.work] = rotated(a.buf[a.psit_nG])]
    IN  [first EXCEPT !.buf[a.psit_nG] = rotated(first.buf[a.Htpsit_nG])]

\* a mutant of switch_references: self.work is given the array of psit_nG
switch_references_aliased(a) ==
    [a EXCEPT !.psit_nG = a.work, !.Htpsit_nG = a.psit_nG,
              !.work = a.psit_nG]

\* line 129: kpt.psit_nG, self.Htpsit_nG, self.work =
\*           self.work, psit_nG, Htpsit_nG
switch_references(a) ==
    [a EXCEPT !.psit_nG = a.work, !.Htpsit_nG = a.psit_nG,
              !.work = a.Htpsit_nG]

\* lines 89-90 for k-point k: the arrays the call works on
arrays_of(k) ==
    [buf |-> tb.buf, psit_nG |-> tb.psit_nG[k], Htpsit_nG |-> tb.Htpsit_nG,
     work |-> tb.work]

\* lines 84-145: one call of diagonalize for k-point k
RotDiagonalize(k) ==
    /\ tb.calls < MaxRotCalls
    /\ \E outcome \in RotOutcomes :
          LET a == arrays_of(k)
              after == IF outcome = "bands differ" THEN a
                       ELSE IF outcome = "Very Bad!!"
                       THEN apply_hamiltonian(a)
                       ELSE switch_references(rotate(apply_hamiltonian(a)))
          IN  tb' = [tb EXCEPT !.buf = after.buf,
                               !.psit_nG[k] = after.psit_nG,
                               !.Htpsit_nG = after.Htpsit_nG,
                               !.work = after.work,
                               !.calls = @ + 1,
                               !.rotations[k] =
                                   IF outcome = "returned" THEN @ + 1 ELSE @,
                               !.last = [k |-> k, outcome |-> outcome]]
    /\ UNCHANGED restRot

InitRot ==
    /\ \E nkpt \in 1..MaxRotKpts :
          tb = [nkpt |-> nkpt,
                buf |-> [b \in 0..(nkpt + 1) |->
                            IF b < nkpt THEN Psit(b, 0) ELSE Unwritten],
                psit_nG |-> [k \in 0..(nkpt - 1) |-> k],
                Htpsit_nG |-> nkpt, work |-> nkpt + 1,
                calls |-> 0,
                rotations |-> [k \in 0..(nkpt - 1) |-> 0],
                last |-> [k |-> 0, outcome |-> "none"]]
    /\ GDIdle
    /\ CommIdle
    /\ BoxesIdle
    /\ DiagIdle
    /\ IterIdle
    /\ PairIdle
    /\ IntIdle
    /\ ProjIdle
    /\ UpdIdle
    /\ SubIdle
    /\ ConvIdle
    /\ NBIdle
    /\ CRIdle
    /\ RadIdle
    /\ PsIdle
    /\ KeepIdle

NextRot == \E k \in DOMAIN tb.psit_nG : RotDiagonalize(k)

SpecRot == InitRot /\ [][NextRot]_vars

\* the arrays named by the k-points and by the solver
NamedArrays ==
    {tb.psit_nG[k] : k \in DOMAIN tb.psit_nG} \cup {tb.Htpsit_nG, tb.work}

(***************************************************************************)
(* C27: after any sequence of diagonalize calls over any k-points the      *)
(* arrays kpt.psit_nG of all k-points, self.Htpsit_nG and self.work are    *)
(* pairwise distinct and none of the buffers is lost; kpt.psit_nG of each  *)
(* k-point holds its wave functions rotated once per completed call, and   *)
(* after a completed call self.Htpsit_nG holds the rotated H.psit of the   *)
(* k-point of that call.                                                   *)
(***************************************************************************)
C27_TripleBufferRotation ==
    /\ Cardinality(NamedArrays) = tb.nkpt + 2
    /\ NamedArrays = DOMAIN tb.buf
    /\ \A k \in DOMAIN tb.psit_nG :
          tb.buf[tb.psit_nG[k]] = Psit(k, tb.rotations[k])
    /\ tb.last.outcome = "returned" =>
          tb.buf[tb.Htpsit_nG] = Htpsit(tb.last.k, tb.rotations[tb.last.k])

\* three completed calls over two k-points: the first k-point twice, then
\* the second, whose wave functions are now in the first work array
C27_Witness ==
    /\ tb.nkpt = 2 /\ tb.calls = 3
    /\ tb.rotations = [k \in 0..1 |-> 2 - k]
    /\ tb.last = [k |-> 1, outcome |-> "returned"]
    /\ tb.psit_nG[1] # 1
    /\ tb.buf[tb.Htpsit_nG] = Htpsit(1, 1)

(***************************************************************************)
(* PoissonSolver.solve of gridpaw/poisson_solver.py.  An iterate2 call     *)
(* returns an error that is either above eps or not.                       *)
(***************************************************************************)
\* lines 68 and 70: the iteration cap
IterationCap == 300

\* the charges explored: neutral, charged with a given charge
ChargeChoices == {0, 1}

\* lines 52-64: the monopole moment is removed when charge != 0
PsStart ==
    /\ ps.pc = "start"
    /\ ps' = [ps EXCEPT !.pc = "while", !.niter = 1,
                        !.moment_removed = ps.charge # 0]
    /\ UNCHANGED restPs

\* lines 68-69: the condition of the while loop calls iterate2, and only
\* then looks at niter; the body adds one to niter
PsIterate2 ==
    /\ ps.pc = "while"
    /\ \E above_eps \in BOOLEAN :
          ps' = [ps EXCEPT !.calls = @ + 1,
                           !.last_above_eps = above_eps,
                           !.converged = @ \/ ~above_eps,
                           !.niter = IF above_eps /\ ps.niter < IterationCap
                                     THEN @ + 1 ELSE @,
                           !.pc = IF above_eps /\ ps.niter < IterationCap
                                  THEN "while" ELSE "after while"]
    /\ UNCHANGED restPs

\* lines 70-82: niter == 300 raises, otherwise the potential is corrected
\* and niter returned
PsFinish ==
    /\ ps.pc = "after while"
    /\ ps' = IF ps.niter = IterationCap
             THEN [ps EXCEPT !.pc = "raised",
                      !.exc = <<"RuntimeError",
                                "Poisson solver did not converge!">>]
             ELSE [ps EXCEPT !.pc = "returned", !.ret = ps.niter,
                      !.corrected = ps.charge # 0]
    /\ UNCHANGED restPs

InitPs ==
    /\ \E charge \in ChargeChoices :
          ps = [pc |-> "start", charge |-> charge, niter |-> 0, calls |-> 0,
                last_above_eps |-> TRUE, converged |-> FALSE,
                moment_removed |-> FALSE, corrected |-> FALSE,
                exc |-> <<>>, ret |-> 0]
    /\ GDIdle
    /\ CommIdle
    /\ BoxesIdle
    /\ DiagIdle
    /\ IterIdle
    /\ PairIdle
    /\ IntIdle
    /\ ProjIdle
    /\ UpdIdle
    /\ SubIdle
    /\ ConvIdle
    /\ NBIdle
    /\ CRIdle
    /\ RadIdle
    /\ RotIdle
    /\ KeepIdle

NextPs ==
    \/ PsStart
    \/ PsIterate2
    \/ PsFinish

SpecPs == InitPs /\ [][NextPs]_vars

(***************************************************************************)
(* C28: solve raises RuntimeError('Poisson solver did not converge!') only *)
(* if none of the iterate2 calls it made returned an error <= eps; when    *)
(* some call returned an error <= eps, solve returns the number of         *)
(* iterate2 calls made, at most 300, without raising.                      *)
(***************************************************************************)
C28_RaisesOnlyUnconverged ==
    /\ ps.pc = "raised" => ~ps.converged
    /\ (ps.pc \in {"raised", "returned"} /\ ps.converged) =>
          /\ ps.pc = "returned"
          /\ ps.ret = ps.calls
          /\ ps.calls <= IterationCap


\* the periodic image that holds the unwrapped grid point g of axis c
image_of(g, c) == g \div self.N_c[c]

\* the periodic images the range of axis c meets
images_met(c) ==
    IF gb.end_c[c] <= gb.beg_c[c] THEN 0
    ELSE image_of(gb.end_c[c] - 1, c) - image_of(gb.beg_c[c], c) + 1

(***************************************************************************)
(* C29: the per-axis splitting loop of get_boxes terminates: in each       *)
(* iteration the segment end e strictly increases and stays within the     *)
(* range, the segment [b, e) of an iteration lies in one periodic image,   *)
(* so the loop of an axis makes at most one iteration per periodic image   *)
(* its range meets and exactly that many when it is left; an axis whose    *)
(* range is empty (end <= begin) gets no iteration and the call returns no *)
(* boxes.                                                                  *)
(***************************************************************************)
C29_SplittingLoopTerminates ==
    /\ [][GetBoxesIterate =>
             /\ gb'.e > gb.e
             /\ gb'.e <= gb.end_c[gb.c]
             /\ image_of(gb.b, gb.c) = image_of(gb'.e - 1, gb.c)]_vars
    /\ [](gb.pc = "loop" => gb.iters <= images_met(gb.c))
    /\ [][GetBoxesNextAxis => gb.iters = images_met(gb.c)]_vars
    /\ [](\A c \in Axes :
             (gb.pc \in {"boxes", "returned"} /\ gb.end_c[c] <= gb.beg_c[c]) =>
                 gb.range_c[c] = <<>> /\ gb.boxes = <<>>)

\* a call has returned whose range on a periodic axis began below zero and
\* spanned more than two cells, split into at least three segments
C29_Witness ==
    /\ gb.pc = "returned"
    /\ \E c \in Axes : /\ self.pbc_c[c] /\ gb.beg_c[c] < 0
                       /\ gb.end_c[c] - gb.beg_c[c] > 2 * self.N_c[c]
                       /\ Len(gb.range_c[c]) >= 3

\* a call has returned whose range was empty on some axis
C29_WitnessEmpty ==
    /\ gb.pc = "returned"
    /\ \E c \in Axes : gb.end_c[c] <= gb.beg_c[c]

(***************************************************************************)
(* Eigensolver of eigensolvers/eigensolver.py: the keep_htpsit flag and    *)
(* the persistent buffer Htpsit_nG, from the constructor through           *)
(* initialize to the calls of subspace_diagonalize.  A buffer is known by  *)
(* what was last stored in it.                                             *)
(***************************************************************************)
MaxKeepCalls == 2   \* calls of subspace_diagonalize

\* the sizes of the band communicator and the values of operator.nblocks
BandCommSizes == {1, 2}
NblocksChoices == {1, 2}

\* how a call of subspace_diagonalize may end after line 206: the dense
\* solve raises (line 242), or the call returns
KeepOutcomes == {"raised", "returned"}

\* a mutant of keeps_htpsit: operator.nblocks is not looked at
keeps_htpsit_any_nblocks(keep_htpsit, mynbands, nbands, nblocks) ==
    IF mynbands # nbands THEN FALSE ELSE keep_htpsit

\* lines 93-94: the flag after initialize
keeps_htpsit(keep_htpsit, mynbands, nbands, nblocks) ==
    IF mynbands # nbands \/ nblocks # 1 THEN FALSE ELSE keep_htpsit

\* lines 74-78: Eigensolver(keep_htpsit)
construct(keep_htpsit) ==
    [keep_htpsit |-> keep_htpsit, initialized |-> FALSE,
     Htpsit_nG |-> "None", mynbands |-> 0, nbands |-> 0, nblocks |-> 0]

\* lines 80-118: initialize(wfs)
initialize(solver, w) ==
    LET keep == keeps_htpsit(solver.keep_htpsit, w.mynbands, w.nbands,
                             w.nblocks)
    IN  [solver EXCEPT !.mynbands = w.mynbands, !.nbands = w.nbands,
                       !.nblocks = w.nblocks,
                       !.keep_htpsit = keep,
                       !.Htpsit_nG = IF keep THEN "gd.zeros" ELSE @,
                       !.initialized = TRUE]

\* lines 128-129 of iterate: the solver is initialized on the first call
KeepIterate ==
    /\ ks.iterates < MaxCalls
    /\ ks' = [ks EXCEPT
                 !.solver = IF ~@.initialized THEN initialize(@, ks.wfs)
                            ELSE @,
                 !.iterates = @ + 1]
    /\ UNCHANGED restKeep

\* lines 188-260: subspace_diagonalize(hamiltonian, wfs, kpt, rotate)
KeepSubspaceDiagonalize ==
    /\ ks.solver.initialized
    /\ ks.calls < MaxKeepCalls
    /\ \E rotating \in BOOLEAN, outcome \in KeepOutcomes :
          LET kept == ks.solver.keep_htpsit
              Htpsit_xG == IF kept THEN "Htpsit_nG" ELSE "temporary buffer"
              refused == ks.wfs.band_comm_size > 1 /\ ks.wfs.strided
              rotates == ~refused /\ outcome = "returned" /\ rotating
          IN  ks' = [ks EXCEPT
                 !.calls = @ + 1,
                 !.solver.Htpsit_nG =
                     IF refused THEN @
                     ELSE IF rotates /\ kept THEN "matrix_multiply"
                     ELSE IF kept THEN "H psit"
                     ELSE @,
                 !.temporary = IF ~refused /\ ~kept THEN "H psit" ELSE @,
                 !.last = [outcome |-> IF refused THEN "NotImplementedError"
                                       ELSE outcome,
                           rotate |-> rotating,
                           Htpsit_xG |-> IF refused THEN "unset" ELSE Htpsit_xG,
                           psit_rotated |-> rotates,
                           Htpsit_stored |-> rotates /\ kept]]
    /\ UNCHANGED restKeep

InitKeep ==
    /\ \E keep_htpsit \in BOOLEAN, nranks \in BandCommSizes,
          mynbands \in 1..MaxBands, nblocks \in NblocksChoices,
          strided \in BOOLEAN :
          ks = [solver |-> construct(keep_htpsit),
                wfs |-> [mynbands |-> mynbands, nbands |-> nranks * mynbands,
                         band_comm_size |-> nranks, nblocks |-> nblocks,
                         strided |-> strided],
                iterates |-> 0, calls |-> 0, temporary |-> "unused",
                last |-> [outcome |-> "none", rotate |-> FALSE,
                          Htpsit_xG |-> "unset", psit_rotated |-> FALSE,
                          Htpsit_stored |-> FALSE]]
    /\ GDIdle
    /\ CommIdle
    /\ BoxesIdle
    /\ DiagIdle
    /\ IterIdle
    /\ PairIdle
    /\ IntIdle
    /\ ProjIdle
    /\ UpdIdle
    /\ SubIdle
    /\ ConvIdle
    /\ NBIdle
    /\ CRIdle
    /\ RadIdle
    /\ RotIdle
    /\ PsIdle

NextKeep ==
    \/ KeepIterate
    \/ KeepSubspaceDiagonalize

SpecKeep == InitKeep /\ [][NextKeep]_vars

(***************************************************************************)
(* C30: after initialize keep_htpsit is true only if mynbands == nbands    *)
(* and operator.nblocks == 1; Htpsit_nG is allocated (not None) exactly    *)
(* when keep_htpsit is true; keep_htpsit never changes from false to true; *)
(* and subspace_diagonalize works in Htpsit_nG and stores the rotated      *)
(* array in it only when keep_htpsit is true.                              *)
(***************************************************************************)
C30_KeepHtpsit ==
    /\ [](ks.solver.initialized =>
             /\ ks.solver.keep_htpsit =>
                   /\ ks.solver.mynbands = ks.solver.nbands
                   /\ ks.solver.nblocks = 1
             /\ ks.solver.Htpsit_nG # "None" <=> ks.solver.keep_htpsit
             /\ ks.last.Htpsit_stored => ks.solver.keep_htpsit
             /\ ks.last.Htpsit_xG = "Htpsit_nG" => ks.solver.keep_htpsit
             /\ (ks.last.psit_rotated /\ ks.solver.keep_htpsit) =>
                   /\ ks.last.Htpsit_stored
                   /\ ks.solver.Htpsit_nG = "matrix_multiply")
    /\ [][~ks.solver.keep_htpsit => ~ks'.solver.keep_htpsit]_vars

\* a solver that keeps its buffer has rotated and stored it
C30_Witness ==
    /\ ks.solver.initialized /\ ks.solver.keep_htpsit
    /\ ks.solver.nbands = 2 /\ ks.last.Htpsit_stored
    /\ ks.solver.Htpsit_nG = "matrix_multiply"

\* a solver constructed with keep_htpsit = True lost the flag in initialize
\* because the bands are distributed, and has rotated without storing
C30_WitnessDropped ==
    /\ ks.solver.initialized /\ ~ks.solver.keep_htpsit
    /\ ks.wfs.band_comm_size = 2 /\ ks.wfs.nblocks = 1
    /\ ks.last.psit_rotated /\ ~ks.last.Htpsit_stored
    /\ ks.solver.Htpsit_nG = "None" /\ ks.temporary = "H psit"

====
